---- MODULE Spec2Model ----
(***************************************************************************)
(* Federated query engine over journal stores and classification stores.   *)
(* BasicQueryEngine / FullQueryEngine (implementations/query_engines.py),  *)
(* the entity model (implementations/models.py) and the two query handlers *)
(* (implementations/query_handlers.py).                                    *)
(*                                                                         *)
(* Cell values are strings; "" stands for a cell that is absent, None or   *)
(* NaN.  A Python dict (insertion ordered) is a sequence of [k, v] pairs.  *)
(* Every engine method yields [exc, val, log]: whether an exception leaves *)
(* the method, the value returned, and the handler calls made, in order.   *)
(***************************************************************************)
EXTENDS Integers, Sequences, FiniteSets, TLC

VARIABLES
    journalQuery,   \* BasicQueryEngine._journalQuery: registered journal handlers
    categoryQuery,  \* BasicQueryEngine._categoryQuery: registered classification handlers
    jstore,         \* per journal handler: the endpoint behind it (up, rows)
    cstore,         \* per classification handler: the SQLite database behind it
    pc,             \* the caller: "idle", or "returned" with a response in last
    last,           \* the last call: [op, args, res]
    entity,         \* an entity object in the hands of a caller
    call            \* the last mutator call on it: [m, arg, before]

vars == <<journalQuery, categoryQuery, jstore, cstore, pc, last, entity, call>>

----------------------------------------------------------------------------
(* Bounds *)

MaxHandlers == 2    \* handlers registered per collection
MaxRows == 3        \* binding rows held by the journal endpoints together (SpecMerge)
MaxIds == 102       \* journals held by a large endpoint (SpecChunk)
MaxLanguages == 2   \* length of a list handed to setLanguages (SpecEntity)

----------------------------------------------------------------------------
(* Generic helpers *)

SeqsUpTo(S, n) == UNION {[1..k -> S] : k \in 0..n}

Range(s) == {s[i] : i \in 1..Len(s)}

RECURSIVE Concat(_)
Concat(ss) == IF ss = <<>> THEN <<>> ELSE Head(ss) \o Concat(Tail(ss))

\* The members of S in the order of the sequence order (ORDER BY, sorted()).
SortedBy(order, S) == SelectSeq(order, LAMBDA x : x \in S)

\* dict: key in target
MapHas(m, k) == \E i \in 1..Len(m) : m[i].k = k
\* dict: target[key]
MapGet(m, k) == m[CHOOSE i \in 1..Len(m) : m[i].k = k].v
\* target[key] = value as a bug would have it: an entity that is merged again is
\* taken out and put back at the end (`del target[key]` before the assignment).
MapPut_MovesToEnd(m, k, v) ==
    Append(SelectSeq(m, LAMBDA e : e.k # k), [k |-> k, v |-> v])

\* dict: target[key] = value (a new key goes to the end, an old one keeps its place)
MapPut(m, k, v) ==
    IF MapHas(m, k)
    THEN [m EXCEPT ![CHOOSE i \in 1..Len(m) : m[i].k = k] = [k |-> k, v |-> v]]
    ELSE Append(m, [k |-> k, v |-> v])
\* dict: list(target.values())
MapValues(m) == [i \in 1..Len(m) |-> m[i].v]

----------------------------------------------------------------------------
(* Cell values *)

NoneStr == "<None>"     \* Python None held in an entity field

\* str.strip() on the padded values the stores hold.
Strip(v) ==
    CASE v = " "     -> ""
      [] v = " en"   -> "en"
      [] v = "True " -> "True"
      [] OTHER       -> v

\* BasicQueryEngine._has_value: not None, not NaN, not blank.
HasValue(v) == Strip(v) # ""

\* str.lower() on the boolean spellings the stores hold.
Lower(v) ==
    CASE v \in {"True", "TRUE"}   -> "true"
      [] v \in {"False", "FALSE"} -> "false"
      [] v \in {"Yes", "YES"}     -> "yes"
      [] v \in {"No", "NO"}       -> "no"
      [] OTHER                    -> v

\* BasicQueryEngine._to_bool on a string cell.
ToBool(v) == Lower(Strip(v)) \in {"1", "true", "yes"}

\* A cell without a truth value (pandas.NA, an array): it is not None, not a float
\* and not a str, so _has_value answers True and bool(value) in _to_bool raises.
NA == "<NA>"

\* BasicQueryEngine._to_bool raises
ToBoolRaises(v) == v = NA

\* The synthetic key f"__row_{idx}" of the idx-th row of one DataFrame.
RowKeys == <<"__row_0", "__row_1", "__row_2", "__row_3", "__row_4", "__row_5",
             "__row_6", "__row_7">>
RowKey(idx) == RowKeys[idx + 1]

----------------------------------------------------------------------------
(* Entity model: implementations/models.py *)

\* addId as a bug would have it: the membership test is missing.
addId_NoMembershipTest(e, entity_id) ==
    IF entity_id # "" THEN [e EXCEPT !.ids = Append(@, entity_id)] ELSE e

\* IdentifiableEntity.addId
addId(e, entity_id) ==
    IF entity_id # "" /\ entity_id \notin Range(e.ids)
    THEN [e EXCEPT !.ids = Append(@, entity_id)]
    ELSE e

\* IdentifiableEntity.setId
setId(e, entity_id) ==
    [e EXCEPT !.ids = IF entity_id # "" THEN <<entity_id>> ELSE <<>>]

\* Journal.__init__
NewJournal ==
    [ids |-> <<>>, title |-> "", languages |-> <<>>, publisher |-> NoneStr,
     seal |-> FALSE, licence |-> "", apc |-> FALSE,
     categories |-> <<>>, areas |-> <<>>]

setTitle(j, title) == [j EXCEPT !.title = title]
setLanguages(j, languages) == [j EXCEPT !.languages = languages]
setPublisher(j, publisher) == [j EXCEPT !.publisher = publisher]
setSeal(j, seal) == [j EXCEPT !.seal = seal]
setLicence(j, licence) == [j EXCEPT !.licence = licence]
setAPC(j, apc) == [j EXCEPT !.apc = apc]

\* Category.__init__
NewCategory == [ids |-> <<>>, quartile |-> NoneStr]
setQuartile(c, quartile) == [c EXCEPT !.quartile = quartile]

\* Area.__init__
NewArea == [ids |-> <<>>]

\* Python None as an argument
NoneObj == [obj |-> "None"]

\* Journal.addCategory (`in` compares the objects themselves)
addCategory(j, category) ==
    IF category # NoneObj /\ category \notin Range(j.categories)
    THEN [j EXCEPT !.categories = Append(@, category)]
    ELSE j

\* Journal.addArea
addArea(j, area) ==
    IF area # NoneObj /\ area \notin Range(j.areas)
    THEN [j EXCEPT !.areas = Append(@, area)]
    ELSE j

\* No mutator has been called yet.
NoMutation == [m |-> "none", arg |-> "", before |-> NewJournal]

\* `not x` for an Optional[str] field
Falsy(v) == v = "" \/ v = NoneStr

----------------------------------------------------------------------------
(* Rows of a journal DataFrame *)

Row(journal, issn, eissn, title, language, publisher, seal, licence, apc) ==
    [journal |-> journal, issn |-> issn, eissn |-> eissn, title |-> title,
     language |-> language, publisher |-> publisher, seal |-> seal,
     licence |-> licence, apc |-> apc]

\* _get_journal_key as a bug would have it: the candidates tried in the order
\* ('eissn', 'issn', 'journal').
GetJournalKey_EissnFirst(row, idx) ==
    IF HasValue(row.eissn) THEN Strip(row.eissn)
    ELSE IF HasValue(row.issn) THEN Strip(row.issn)
    ELSE IF HasValue(row.journal) THEN Strip(row.journal)
    ELSE RowKey(idx)

\* BasicQueryEngine._get_journal_key
GetJournalKey(row, idx) ==
    IF HasValue(row.issn) THEN Strip(row.issn)
    ELSE IF HasValue(row.eissn) THEN Strip(row.eissn)
    ELSE IF HasValue(row.journal) THEN Strip(row.journal)
    ELSE RowKey(idx)

\* BasicQueryEngine._dataframe_to_journal
DataframeToJournal(row) ==
    LET issn == IF HasValue(row.issn) THEN row.issn ELSE row.eissn
        j1 == IF HasValue(issn) THEN setId(NewJournal, Strip(issn)) ELSE NewJournal
        j2 == setTitle(j1, IF HasValue(row.title) THEN Strip(row.title) ELSE "")
        j3 == setLanguages(j2, IF HasValue(row.language)
                               THEN <<Strip(row.language)>> ELSE <<>>)
        j4 == setPublisher(j3, IF HasValue(row.publisher)
                               THEN Strip(row.publisher) ELSE NoneStr)
        j5 == setSeal(j4, IF HasValue(row.seal) THEN ToBool(row.seal) ELSE FALSE)
        j6 == setLicence(j5, IF HasValue(row.licence) THEN Strip(row.licence) ELSE "")
    IN  setAPC(j6, IF HasValue(row.apc) THEN ToBool(row.apc) ELSE FALSE)

\* The conversions of the seal and the APC cell: one of them raises.
FlagsRaise(row) ==
    \/ HasValue(row.seal) /\ ToBoolRaises(row.seal)
    \/ HasValue(row.apc) /\ ToBoolRaises(row.apc)

\* BasicQueryEngine._dataframe_to_journal returns None: `except Exception`
DataframeToJournalIsNone(row) == FlagsRaise(row)

\* BasicQueryEngine._update_journal_from_row raises: no try around its steps
UpdateJournalFromRowRaises(row) == FlagsRaise(row)

\* The language step of _update_journal_from_row as a bug would have it:
\* the language is appended without the membership test.
UpdateLanguages_NoDedup(j, row) ==
    IF HasValue(row.language)
    THEN setLanguages(j, Append(j.languages, Strip(row.language)))
    ELSE j

\* BasicQueryEngine._update_journal_from_row, lines 433-439
UpdateLanguages(j, row) ==
    IF HasValue(row.language) /\ Strip(row.language) \notin Range(j.languages)
    THEN setLanguages(j, Append(j.languages, Strip(row.language)))
    ELSE j

\* _update_journal_from_row as a bug would have it: the flags are filled like the
\* other fields, only while still unset (`and not journal.hasDOASeal()`).
UpdateJournalFromRow_FlagsFirstWin(j, row) ==
    LET j1 == IF HasValue(row.title) /\ j.title = ""
              THEN setTitle(j, Strip(row.title)) ELSE j
        j2 == UpdateLanguages(j1, row)
        j3 == IF HasValue(row.publisher) /\ Falsy(j2.publisher)
              THEN setPublisher(j2, Strip(row.publisher)) ELSE j2
        j4 == IF HasValue(row.seal) /\ ~j3.seal THEN setSeal(j3, ToBool(row.seal)) ELSE j3
        j5 == IF HasValue(row.licence) /\ j4.licence = ""
              THEN setLicence(j4, Strip(row.licence)) ELSE j4
    IN  IF HasValue(row.apc) /\ ~j5.apc THEN setAPC(j5, ToBool(row.apc)) ELSE j5

\* _update_journal_from_row as a bug would have it: the merge also takes the
\* identifier of the row, its EISSN when it has one.
UpdateJournalFromRow_TakesId(j, row) ==
    LET j1 == IF HasValue(row.title) /\ j.title = ""
              THEN setTitle(j, Strip(row.title)) ELSE j
        j2 == UpdateLanguages(j1, row)
        j3 == IF HasValue(row.publisher) /\ Falsy(j2.publisher)
              THEN setPublisher(j2, Strip(row.publisher)) ELSE j2
        j4 == IF HasValue(row.seal) THEN setSeal(j3, ToBool(row.seal)) ELSE j3
        j5 == IF HasValue(row.licence) /\ j4.licence = ""
              THEN setLicence(j4, Strip(row.licence)) ELSE j4
        j6 == IF HasValue(row.apc) THEN setAPC(j5, ToBool(row.apc)) ELSE j5
    IN  IF HasValue(row.eissn) THEN setId(j6, Strip(row.eissn)) ELSE j6

\* BasicQueryEngine._update_journal_from_row
UpdateJournalFromRow(j, row) ==
    LET j1 == IF HasValue(row.title) /\ j.title = ""
              THEN setTitle(j, Strip(row.title)) ELSE j
        j2 == UpdateLanguages(j1, row)
        j3 == IF HasValue(row.publisher) /\ Falsy(j2.publisher)
              THEN setPublisher(j2, Strip(row.publisher)) ELSE j2
        j4 == IF HasValue(row.seal) THEN setSeal(j3, ToBool(row.seal)) ELSE j3
        j5 == IF HasValue(row.licence) /\ j4.licence = ""
              THEN setLicence(j4, Strip(row.licence)) ELSE j4
    IN  IF HasValue(row.apc) THEN setAPC(j5, ToBool(row.apc)) ELSE j5

\* The outcome of a pass over rows: the map, or an exception on its way out.
Collected(target) == [exc |-> FALSE, map |-> target]
CollectRaised == [exc |-> TRUE, map |-> <<>>]

\* BasicQueryEngine._collect_journals, the body of the loop for the i-th row
CollectJournalRow(df, i, target) ==
    LET row == df[i]
        key == GetJournalKey(row, i - 1)
    IN  IF key = "" THEN Collected(target)
        ELSE IF MapHas(target, key)
        THEN IF UpdateJournalFromRowRaises(row) THEN CollectRaised
             ELSE Collected(MapPut(target, key,
                                   UpdateJournalFromRow(MapGet(target, key), row)))
        ELSE IF DataframeToJournalIsNone(row) THEN Collected(target)
             ELSE Collected(MapPut(target, key, DataframeToJournal(row)))

\* BasicQueryEngine._collect_journals, the rows lo..hi in order: the lower half
\* first, then the upper half on the map the lower half leaves
RECURSIVE CollectJournalsFrom(_, _, _, _)
CollectJournalsFrom(df, lo, hi, target) ==
    IF lo > hi THEN Collected(target)
    ELSE IF lo = hi THEN CollectJournalRow(df, lo, target)
    ELSE LET mid == (lo + hi) \div 2
             lower == CollectJournalsFrom(df, lo, mid, target)
         IN  IF lower.exc THEN lower
             ELSE IF lower.map = <<>>
             THEN CollectJournalsFrom(df, mid + 1, hi, <<>>)
             ELSE CollectJournalsFrom(df, mid + 1, hi, lower.map)

\* BasicQueryEngine._collect_journals
CollectJournals(df, target) == CollectJournalsFrom(df, 1, Len(df), target)

----------------------------------------------------------------------------
(* Rows of a classification DataFrame, and their entities *)

\* BasicQueryEngine._dataframe_to_category
DataframeToCategory(row) ==
    LET c1 == setId(NewCategory, IF HasValue(row.id) THEN Strip(row.id) ELSE "")
    IN  setQuartile(c1, IF HasValue(row.quartile) THEN Strip(row.quartile) ELSE NoneStr)

\* BasicQueryEngine._dataframe_to_area
DataframeToArea(row) ==
    setId(NewArea, IF HasValue(row.id) THEN Strip(row.id) ELSE "")

\* The identity key of _collect_categories and _collect_areas
EntityKey(e, idx) == IF e.ids # <<>> THEN e.ids[1] ELSE RowKey(idx)

\* _collect_categories as a bug would have it: a later row's quartile replaces the
\* one already set (the `not existing.getQuartile()` test is missing).
RECURSIVE CollectCategoriesFrom_LastWins(_, _, _)
CollectCategoriesFrom_LastWins(df, i, target) ==
    IF i > Len(df) THEN target
    ELSE LET category == DataframeToCategory(df[i])
             identifier == EntityKey(category, i - 1)
         IN  IF MapHas(target, identifier)
             THEN LET existing == MapGet(target, identifier)
                  IN  IF ~Falsy(category.quartile)
                      THEN CollectCategoriesFrom_LastWins(df, i + 1,
                               MapPut(target, identifier,
                                      setQuartile(existing, category.quartile)))
                      ELSE CollectCategoriesFrom_LastWins(df, i + 1, target)
             ELSE CollectCategoriesFrom_LastWins(df, i + 1,
                                                 MapPut(target, identifier, category))

\* BasicQueryEngine._collect_categories, from the i-th row on
RECURSIVE CollectCategoriesFrom(_, _, _)
CollectCategoriesFrom(df, i, target) ==
    IF i > Len(df) THEN target
    ELSE LET category == DataframeToCategory(df[i])
             identifier == EntityKey(category, i - 1)
         IN  IF MapHas(target, identifier)
             THEN LET existing == MapGet(target, identifier)
                  IN  IF Falsy(existing.quartile) /\ ~Falsy(category.quartile)
                      THEN CollectCategoriesFrom(df, i + 1,
                               MapPut(target, identifier,
                                      setQuartile(existing, category.quartile)))
                      ELSE CollectCategoriesFrom(df, i + 1, target)
             ELSE CollectCategoriesFrom(df, i + 1, MapPut(target, identifier, category))

\* BasicQueryEngine._collect_categories
CollectCategories(df, target) == CollectCategoriesFrom(df, 1, target)

\* BasicQueryEngine._collect_areas, from the i-th row on
RECURSIVE CollectAreasFrom(_, _, _)
CollectAreasFrom(df, i, target) ==
    IF i > Len(df) THEN target
    ELSE LET area == DataframeToArea(df[i])
             identifier == EntityKey(area, i - 1)
         IN  IF MapHas(target, identifier)
             THEN CollectAreasFrom(df, i + 1, target)
             ELSE CollectAreasFrom(df, i + 1, MapPut(target, identifier, area))

\* BasicQueryEngine._collect_areas
CollectAreas(df, target) == CollectAreasFrom(df, 1, target)

----------------------------------------------------------------------------
(* JournalQueryHandler: implementations/query_handlers.py                  *)
(* jstore[h].rows are the bindings the endpoint holds for the journal      *)
(* pattern (?journal and ?title bound, the rest optional), in title order. *)
(* jstore[h].mode: "ok", or "down": the request fails and                  *)
(* _execute_sparql_query answers an empty DataFrame.                       *)

Df(rows) == [exc |-> FALSE, df |-> rows]
Raised == [exc |-> TRUE, df |-> <<>>]

\* JournalQueryHandler._execute_sparql_query on the rows a query selects
ExecuteSparqlQuery(h, rows) ==
    IF jstore[h].mode = "ok" THEN Df(rows) ELSE Df(<<>>)

\* JournalQueryHandler.getAllJournals
HGetAllJournals(h) == ExecuteSparqlQuery(h, jstore[h].rows)

\* JournalQueryHandler.getJournalsWithLicense
HGetJournalsWithLicense(h, licenses) ==
    IF licenses = {} THEN HGetAllJournals(h)
    ELSE IF licenses \ {""} = {} THEN Df(<<>>)
    ELSE ExecuteSparqlQuery(h,
             SelectSeq(jstore[h].rows,
                       LAMBDA r : r.licence # "" /\ r.licence \in licenses \ {""}))

\* COALESCE(?issn, ?eissn)
AnyId(r) == IF r.issn # "" THEN r.issn ELSE r.eissn

\* JournalQueryHandler.getJournalsByIssns
HGetJournalsByIssns(h, issns) ==
    LET cleaned_ids == issns \ {""}
    IN  IF cleaned_ids = {} THEN Df(<<>>)
        ELSE ExecuteSparqlQuery(h,
                 SelectSeq(jstore[h].rows, LAMBDA r : AnyId(r) \in cleaned_ids))

\* JournalQueryHandler.getById
HGetById(h, entity_id) ==
    ExecuteSparqlQuery(h,
        SelectSeq(jstore[h].rows, LAMBDA r : r.issn = entity_id \/ r.eissn = entity_id))

\* One call of a journal handler method by the engine
HJournalCall(h, m, arg) ==
    CASE m = "getAllJournals"         -> HGetAllJournals(h)
      [] m = "getJournalsWithLicense" -> HGetJournalsWithLicense(h, arg)
      [] m = "getJournalsByIssns"     -> HGetJournalsByIssns(h, arg)
      [] m = "getById"                -> HGetById(h, arg)

----------------------------------------------------------------------------
(* CategoryQueryHandler: implementations/query_handlers.py                 *)
(* cstore[h] is the SQLite database: ok (the tables exist), categories     *)
(* (id primary key, quartile "" = NULL), areas, journal_categories and     *)
(* journal_areas.  A query on a database without the tables raises.        *)

\* The identifiers the stores use, in the order ORDER BY / sorted() gives.
CatOrder == <<"C1", "C2", "C3">>
AreaOrder == <<"A1", "A2">>
\* The journal identifiers of the large stores, in sorted() order.
BigIds == <<
    "0001", "0002", "0003", "0004", "0005", "0006", "0007", "0008", "0009", "0010", "0011", "0012", "0013",
    "0014", "0015", "0016", "0017", "0018", "0019", "0020", "0021", "0022", "0023", "0024", "0025", "0026",
    "0027", "0028", "0029", "0030", "0031", "0032", "0033", "0034", "0035", "0036", "0037", "0038", "0039",
    "0040", "0041", "0042", "0043", "0044", "0045", "0046", "0047", "0048", "0049", "0050", "0051", "0052",
    "0053", "0054", "0055", "0056", "0057", "0058", "0059", "0060", "0061", "0062", "0063", "0064", "0065",
    "0066", "0067", "0068", "0069", "0070", "0071", "0072", "0073", "0074", "0075", "0076", "0077", "0078",
    "0079", "0080", "0081", "0082", "0083", "0084", "0085", "0086", "0087", "0088", "0089", "0090", "0091",
    "0092", "0093", "0094", "0095", "0096", "0097", "0098", "0099", "0100", "0101", "0102", "0103", "0104" >>

IdOrder == BigIds \o <<"1111", "2222", "3333", "4444", "e555">>

CategoryRows(h, ids) ==
    LET ordered == SortedBy(CatOrder, ids)
    IN  [i \in 1..Len(ordered) |->
            CHOOSE c \in cstore[h].categories : c.id = ordered[i]]

AreaRows(h, ids) ==
    LET ordered == SortedBy(AreaOrder, ids)
    IN  [i \in 1..Len(ordered) |-> [id |-> ordered[i]]]

\* CategoryQueryHandler.getAllCategories
HGetAllCategories(h) ==
    IF ~cstore[h].ok THEN Raised
    ELSE Df(CategoryRows(h, {c.id : c \in cstore[h].categories}))

\* CategoryQueryHandler.getAllAreas
HGetAllAreas(h) ==
    IF ~cstore[h].ok THEN Raised
    ELSE Df(AreaRows(h, cstore[h].areas))

\* CategoryQueryHandler.getCategoriesWithQuartile
HGetCategoriesWithQuartile(h, quartiles) ==
    IF ~cstore[h].ok THEN Raised
    ELSE IF quartiles = {}
    THEN Df(CategoryRows(h, {c.id : c \in cstore[h].categories}))
    ELSE Df(CategoryRows(h, {c.id : c \in {x \in cstore[h].categories :
                                              x.quartile # "" /\ x.quartile \in quartiles}}))

\* CategoryQueryHandler.getCategoriesAssignedToAreas: categories JOIN
\* journal_categories JOIN journal_areas ON issn
HGetCategoriesAssignedToAreas(h, area_ids) ==
    IF ~cstore[h].ok THEN Raised
    ELSE IF area_ids = {}
    THEN Df(CategoryRows(h, {c.id : c \in cstore[h].categories}))
    ELSE Df(CategoryRows(h,
                {c.id : c \in {x \in cstore[h].categories :
                    \E jc \in cstore[h].journal_categories, ja \in cstore[h].journal_areas :
                        /\ jc[2] = x.id
                        /\ jc[1] = ja[1]
                        /\ ja[2] \in area_ids}}))

\* CategoryQueryHandler.getAreasAssignedToCategories: areas JOIN journal_areas JOIN
\* journal_categories ON issn
HGetAreasAssignedToCategories(h, category_ids) ==
    IF ~cstore[h].ok THEN Raised
    ELSE IF category_ids = {}
    THEN Df(AreaRows(h, cstore[h].areas))
    ELSE Df(AreaRows(h,
                {a \in cstore[h].areas :
                    \E ja \in cstore[h].journal_areas, jc \in cstore[h].journal_categories :
                        /\ ja[2] = a
                        /\ ja[1] = jc[1]
                        /\ jc[2] \in category_ids}))

\* CategoryQueryHandler.getById: the categories table, then the areas table
HCategoryGetById(h, entity_id) ==
    IF ~cstore[h].ok THEN Raised
    ELSE LET category_df == CategoryRows(h, {c.id : c \in {x \in cstore[h].categories :
                                                            x.id = entity_id}})
         IN  IF category_df # <<>> THEN Df(category_df)
             ELSE Df(AreaRows(h, cstore[h].areas \cap {entity_id}))

\* One call of a classification handler method by the engine
HCategoryCall(h, m, arg) ==
    CASE m = "getAllCategories"          -> HGetAllCategories(h)
      [] m = "getAllAreas"               -> HGetAllAreas(h)
      [] m = "getCategoriesWithQuartile" -> HGetCategoriesWithQuartile(h, arg)
      [] m = "getCategoriesAssignedToAreas" -> HGetCategoriesAssignedToAreas(h, arg)
      [] m = "getAreasAssignedToCategories" -> HGetAreasAssignedToCategories(h, arg)
      [] m = "getById"                   -> HCategoryGetById(h, arg)

\* FullQueryEngine._get_issns_for_category (a failure yields set())
GetIssnsForCategory(h, category_id) ==
    IF ~cstore[h].ok THEN {}
    ELSE {p[1] : p \in {q \in cstore[h].journal_categories : q[2] = category_id}}

\* FullQueryEngine._get_issns_for_area (a failure yields set())
GetIssnsForArea(h, area_id) ==
    IF ~cstore[h].ok THEN {}
    ELSE {p[1] : p \in {q \in cstore[h].journal_areas : q[2] = area_id}}

----------------------------------------------------------------------------
(* BasicQueryEngine: implementations/query_engines.py *)

Call(h, m, arg) == [h |-> h, m |-> m, arg |-> arg]

Returned(val, log) == [exc |-> FALSE, val |-> val, log |-> log]
Thrown(log) == [exc |-> TRUE, val |-> <<>>, log |-> log]

\* try: ... except Exception: return []
CatchList(r) == IF r.exc THEN Returned(<<>>, r.log) ELSE r

\* try: ... except Exception: return None
NoEntity == [kind |-> "None"]
CatchNone(r) == IF r.exc THEN [exc |-> FALSE, val |-> NoEntity, log |-> r.log] ELSE r

\* The classification probe as a bug would have it: when no handler hits, a
\* default-constructed entity is returned for `return None`.
RECURSIVE EntityInCategoriesFrom_Default(_, _, _)
EntityInCategoriesFrom_Default(entity_id, i, log) ==
    IF i > Len(categoryQuery) THEN Returned([kind |-> "Area", entity |-> NewArea], log)
    ELSE LET h == categoryQuery[i]
             r == HCategoryCall(h, "getById", entity_id)
             log2 == Append(log, Call(h, "getById", {entity_id}))
         IN  IF r.exc THEN Thrown(log2)
             ELSE IF r.df # <<>>
             THEN IF "quartile" \in DOMAIN r.df[1]
                  THEN Returned([kind |-> "Category",
                                 entity |-> DataframeToCategory(r.df[1])], log2)
                  ELSE Returned([kind |-> "Area",
                                 entity |-> DataframeToArea(r.df[1])], log2)
             ELSE EntityInCategoriesFrom_Default(entity_id, i + 1, log2)

\* getEntityById: for handler in self._categoryQuery (from the i-th handler on)
RECURSIVE EntityInCategoriesFrom(_, _, _)
EntityInCategoriesFrom(entity_id, i, log) ==
    IF i > Len(categoryQuery) THEN Returned(NoEntity, log)
    ELSE LET h == categoryQuery[i]
             r == HCategoryCall(h, "getById", entity_id)
             log2 == Append(log, Call(h, "getById", {entity_id}))
         IN  IF r.exc THEN Thrown(log2)
             ELSE IF r.df # <<>>
             THEN IF "quartile" \in DOMAIN r.df[1]
                  THEN Returned([kind |-> "Category",
                                 entity |-> DataframeToCategory(r.df[1])], log2)
                  ELSE Returned([kind |-> "Area",
                                 entity |-> DataframeToArea(r.df[1])], log2)
             ELSE EntityInCategoriesFrom(entity_id, i + 1, log2)

\* The journal probe as a bug would have it: the Journal is merged from every row
\* of the hit, as getAllJournals merges them.
RECURSIVE EntityInJournalsFrom_Merged(_, _, _)
EntityInJournalsFrom_Merged(entity_id, i, log) ==
    IF i > Len(journalQuery) THEN EntityInCategoriesFrom(entity_id, 1, log)
    ELSE LET h == journalQuery[i]
             r == HJournalCall(h, "getById", entity_id)
             log2 == Append(log, Call(h, "getById", {entity_id}))
             c == CollectJournals(r.df, <<>>)
         IN  IF r.exc \/ c.exc THEN Thrown(log2)
             ELSE IF r.df # <<>>
             THEN IF c.map = <<>> THEN Returned(NoEntity, log2)
                  ELSE Returned([kind |-> "Journal", entity |-> MapValues(c.map)[1]], log2)
             ELSE EntityInJournalsFrom_Merged(entity_id, i + 1, log2)

\* getEntityById: for handler in self._journalQuery (from the i-th handler on)
RECURSIVE EntityInJournalsFrom(_, _, _)
EntityInJournalsFrom(entity_id, i, log) ==
    IF i > Len(journalQuery) THEN EntityInCategoriesFrom(entity_id, 1, log)
    ELSE LET h == journalQuery[i]
             r == HJournalCall(h, "getById", entity_id)
             log2 == Append(log, Call(h, "getById", {entity_id}))
         IN  IF r.exc THEN Thrown(log2)
             ELSE IF r.df # <<>>
             THEN IF DataframeToJournalIsNone(r.df[1]) THEN Returned(NoEntity, log2)
                  ELSE Returned([kind |-> "Journal",
                                 entity |-> DataframeToJournal(r.df[1])], log2)
             ELSE EntityInJournalsFrom(entity_id, i + 1, log2)

\* BasicQueryEngine.getEntityById
getEntityById(entity_id) == CatchNone(EntityInJournalsFrom(entity_id, 1, <<>>))

\* for handler in self._journalQuery: df = handler.<m>(arg);
\*     self._collect_journals(df, journal_map)      (from the i-th handler on)
RECURSIVE JournalFanOutFrom(_, _, _, _, _)
JournalFanOutFrom(m, arg, i, journal_map, log) ==
    IF i > Len(journalQuery) THEN Returned(MapValues(journal_map), log)
    ELSE LET h == journalQuery[i]
             r == HJournalCall(h, m, arg)
             log2 == Append(log, Call(h, m, arg))
             c == CollectJournals(r.df, journal_map)
         IN  IF r.exc \/ c.exc THEN Thrown(log2)
             ELSE JournalFanOutFrom(m, arg, i + 1, c.map, log2)

\* getAllJournals as a bug would have it: journal_map is an attribute of the engine
\* that outlives the call, so the journals of the call before are still in it.
getAllJournals_KeepsMap ==
    LET kept == IF call.m = "kept" /\ call.arg.op \in {"getAllJournals", "getJournalsWithLicense"}
                THEN call.before ELSE <<>>
        journal_map == [n \in 1..Len(kept) |->
                           [k |-> IF kept[n].ids # <<>> THEN kept[n].ids[1] ELSE RowKey(n - 1),
                            v |-> kept[n]]]
    IN  CatchList(JournalFanOutFrom("getAllJournals", {}, 1, journal_map, <<>>))

\* BasicQueryEngine.getAllJournals
getAllJournals == CatchList(JournalFanOutFrom("getAllJournals", {}, 1, <<>>, <<>>))

\* BasicQueryEngine.getJournalsWithLicense
getJournalsWithLicense(licenses) ==
    CatchList(JournalFanOutFrom("getJournalsWithLicense", licenses, 1, <<>>, <<>>))

\* for handler in self._categoryQuery: df = handler.<m>(arg);
\*     self._collect_categories(df, category_map)   (from the i-th handler on)
RECURSIVE CategoryFanOutFrom(_, _, _, _, _)
CategoryFanOutFrom(m, arg, i, category_map, log) ==
    IF i > Len(categoryQuery) THEN Returned(MapValues(category_map), log)
    ELSE LET h == categoryQuery[i]
             r == HCategoryCall(h, m, arg)
             log2 == Append(log, Call(h, m, arg))
         IN  IF r.exc THEN Thrown(log2)
             ELSE CategoryFanOutFrom(m, arg, i + 1,
                                     CollectCategories(r.df, category_map), log2)

\* for handler in self._categoryQuery: df = handler.<m>(arg);
\*     self._collect_areas(df, area_map)             (from the i-th handler on)
RECURSIVE AreaFanOutFrom(_, _, _, _, _)
AreaFanOutFrom(m, arg, i, area_map, log) ==
    IF i > Len(categoryQuery) THEN Returned(MapValues(area_map), log)
    ELSE LET h == categoryQuery[i]
             r == HCategoryCall(h, m, arg)
             log2 == Append(log, Call(h, m, arg))
         IN  IF r.exc THEN Thrown(log2)
             ELSE AreaFanOutFrom(m, arg, i + 1, CollectAreas(r.df, area_map), log2)

\* BasicQueryEngine.getAllCategories
getAllCategories == CatchList(CategoryFanOutFrom("getAllCategories", {}, 1, <<>>, <<>>))

\* BasicQueryEngine.getAllAreas
getAllAreas == CatchList(AreaFanOutFrom("getAllAreas", {}, 1, <<>>, <<>>))

\* BasicQueryEngine.getCategoriesWithQuartile without its try/except.
getCategoriesWithQuartile_NoCatch(quartiles) ==
    CategoryFanOutFrom("getCategoriesWithQuartile", quartiles, 1, <<>>, <<>>)

\* BasicQueryEngine.getCategoriesWithQuartile
getCategoriesWithQuartile(quartiles) ==
    CatchList(CategoryFanOutFrom("getCategoriesWithQuartile", quartiles, 1, <<>>, <<>>))

\* BasicQueryEngine.getCategoriesAssignedToAreas
getCategoriesAssignedToAreas(area_ids) ==
    CatchList(CategoryFanOutFrom("getCategoriesAssignedToAreas", area_ids, 1, <<>>, <<>>))

\* BasicQueryEngine.getAreasAssignedToCategories
getAreasAssignedToCategories(category_ids) ==
    CatchList(AreaFanOutFrom("getAreasAssignedToCategories", category_ids, 1, <<>>, <<>>))

\* The chunk size _fetch_journals_by_issns passes to _chunked
ChunkSize == 50

\* _chunked as a bug would have it: after a full batch the next item is lost
\* (the batch is reset after the item is read instead of before).
RECURSIVE Chunked_DropsAtBoundary(_, _)
Chunked_DropsAtBoundary(items, size) ==
    IF items = <<>> THEN <<>>
    ELSE IF Len(items) <= size THEN <<items>>
    ELSE <<SubSeq(items, 1, size)>>
         \o Chunked_DropsAtBoundary(SubSeq(items, size + 2, Len(items)), size)

\* _chunked as a bug would have it: the batch is yielded when it has grown past
\* size (`len(batch) > size`).
RECURSIVE Chunked_OneTooMany(_, _)
Chunked_OneTooMany(items, size) ==
    IF items = <<>> THEN <<>>
    ELSE IF Len(items) <= size + 1 THEN <<items>>
    ELSE <<SubSeq(items, 1, size + 1)>>
         \o Chunked_OneTooMany(SubSeq(items, size + 2, Len(items)), size)

\* BasicQueryEngine._chunked
RECURSIVE Chunked(_, _)
Chunked(items, size) ==
    IF items = <<>> THEN <<>>
    ELSE IF Len(items) <= size THEN <<items>>
    ELSE <<SubSeq(items, 1, size)>> \o Chunked(SubSeq(items, size + 1, Len(items)), size)

\* _fetch_journals_by_issns as a bug would have it: the loops are nested the other
\* way round, every handler is asked for a chunk before the next chunk is taken.
RECURSIVE FetchFrom_ChunkMajor(_, _, _, _, _)
FetchFrom_ChunkMajor(chunks, i, k, journal_map, log) ==
    IF k > Len(chunks) THEN Returned(MapValues(journal_map), log)
    ELSE IF i > Len(journalQuery) THEN FetchFrom_ChunkMajor(chunks, 1, k + 1, journal_map, log)
    ELSE LET h == journalQuery[i]
             arg == Range(chunks[k])
             r == HJournalCall(h, "getJournalsByIssns", arg)
             log2 == Append(log, Call(h, "getJournalsByIssns", arg))
             c == CollectJournals(r.df, journal_map)
         IN  IF r.exc \/ c.exc THEN Thrown(log2)
             ELSE FetchFrom_ChunkMajor(chunks, i + 1, k, c.map, log2)

\* for chunk in self._chunked(cleaned_ids, 50): ... (chunk k of handler i on)
RECURSIVE FetchFrom(_, _, _, _, _)
FetchFrom(chunks, i, k, journal_map, log) ==
    IF i > Len(journalQuery) THEN Returned(MapValues(journal_map), log)
    ELSE IF k > Len(chunks) THEN FetchFrom(chunks, i + 1, 1, journal_map, log)
    ELSE LET h == journalQuery[i]
             arg == Range(chunks[k])
             r == HJournalCall(h, "getJournalsByIssns", arg)
             log2 == Append(log, Call(h, "getJournalsByIssns", arg))
             c == CollectJournals(r.df, journal_map)
         IN  IF r.exc \/ c.exc THEN Thrown(log2)
             ELSE FetchFrom(chunks, i, k + 1, c.map, log2)

\* BasicQueryEngine._fetch_journals_by_issns
FetchJournalsByIssns(issns) ==
    LET cleaned_ids == SortedBy(IdOrder, issns \ {""})
    IN  IF cleaned_ids = <<>> THEN Returned(<<>>, <<>>)
        ELSE FetchFrom(Chunked(cleaned_ids, ChunkSize), 1, 1, <<>>, <<>>)

----------------------------------------------------------------------------
(* FullQueryEngine: implementations/query_engines.py *)

\* The lookup as a bug would have it: the set of the last lookup replaces the
\* union (`journal_issns = issns` for `journal_issns.update(issns)`).
RECURSIVE CategoryLookupsFrom_Overwrite(_, _, _, _, _)
CategoryLookupsFrom_Overwrite(cats, i, k, issns, log) ==
    IF i > Len(categoryQuery) THEN [exc |-> FALSE, ids |-> issns, log |-> log]
    ELSE IF k > Len(cats) THEN CategoryLookupsFrom_Overwrite(cats, i + 1, 1, issns, log)
    ELSE IF cats[k].ids = <<>> THEN [exc |-> TRUE, ids |-> issns, log |-> log]
    ELSE LET h == categoryQuery[i]
             category_id == cats[k].ids[1]
         IN  CategoryLookupsFrom_Overwrite(cats, i, k + 1,
                 GetIssnsForCategory(h, category_id),
                 Append(log, Call(h, "_get_issns_for_category", {category_id})))

\* for handler in self._categoryQuery: for category in categories_with_quartile:
\*     journal_issns.update(self._get_issns_for_category(handler, category.getIds()[0]))
\* (category k of handler i on; getIds()[0] of a category without identifier raises)
RECURSIVE CategoryLookupsFrom(_, _, _, _, _)
CategoryLookupsFrom(cats, i, k, issns, log) ==
    IF i > Len(categoryQuery) THEN [exc |-> FALSE, ids |-> issns, log |-> log]
    ELSE IF k > Len(cats) THEN CategoryLookupsFrom(cats, i + 1, 1, issns, log)
    ELSE IF cats[k].ids = <<>> THEN [exc |-> TRUE, ids |-> issns, log |-> log]
    ELSE LET h == categoryQuery[i]
             category_id == cats[k].ids[1]
         IN  CategoryLookupsFrom(cats, i, k + 1,
                 issns \cup GetIssnsForCategory(h, category_id),
                 Append(log, Call(h, "_get_issns_for_category", {category_id})))

\* The area lookup as a bug would have it: the set of the last lookup replaces the
\* union (`journal_issns_in_areas = issns` for `journal_issns_in_areas.update(issns)`).
RECURSIVE AreaLookupsFrom_Overwrite(_, _, _, _, _)
AreaLookupsFrom_Overwrite(areas, i, k, issns, log) ==
    IF i > Len(categoryQuery) THEN [exc |-> FALSE, ids |-> issns, log |-> log]
    ELSE IF k > Len(areas) THEN AreaLookupsFrom_Overwrite(areas, i + 1, 1, issns, log)
    ELSE LET h == categoryQuery[i]
         IN  AreaLookupsFrom_Overwrite(areas, i, k + 1,
                 GetIssnsForArea(h, areas[k]),
                 Append(log, Call(h, "_get_issns_for_area", {areas[k]})))

\* for handler in self._categoryQuery: for area_id in area_ids:
\*     journal_issns_in_areas.update(self._get_issns_for_area(handler, area_id))
\* (area k of handler i on; the set is walked in identifier order)
RECURSIVE AreaLookupsFrom(_, _, _, _, _)
AreaLookupsFrom(areas, i, k, issns, log) ==
    IF i > Len(categoryQuery) THEN [exc |-> FALSE, ids |-> issns, log |-> log]
    ELSE IF k > Len(areas) THEN AreaLookupsFrom(areas, i + 1, 1, issns, log)
    ELSE LET h == categoryQuery[i]
         IN  AreaLookupsFrom(areas, i, k + 1,
                 issns \cup GetIssnsForArea(h, areas[k]),
                 Append(log, Call(h, "_get_issns_for_area", {areas[k]})))

\* The area filter as a bug would have it: a set that came out empty is taken for
\* no filter (`if journal_issns_in_areas:` for `is not None`).
AreaFilter_EmptyIsNone(area_ids) ==
    LET r == AreaLookupsFrom(SortedBy(AreaOrder, area_ids), 1, 1, {}, <<>>)
    IN  [active |-> area_ids # {} /\ r.ids # {}, ids |-> r.ids,
         log |-> IF area_ids # {} THEN r.log ELSE <<>>]

\* journal_issns_in_areas: None (inactive) when area_ids is empty
AreaFilter(area_ids) ==
    IF area_ids # {}
    THEN LET r == AreaLookupsFrom(SortedBy(AreaOrder, area_ids), 1, 1, {}, <<>>)
         IN  [active |-> TRUE, ids |-> r.ids, log |-> r.log]
    ELSE [active |-> FALSE, ids |-> {}, log |-> <<>>]

\* [cat for cat in categories_with_quartile if cat.getIds()[0] in category_ids]
NarrowCategories(cats, category_ids) ==
    SelectSeq(cats, LAMBDA cat : cat.ids[1] \in category_ids)

Idless(cats) == \E i \in 1..Len(cats) : cats[i].ids = <<>>

\* The quartile short-circuit left out.
QuartileShortCircuit_Never(categories_with_quartile, quartiles) == FALSE

\* if not categories_with_quartile and quartiles: return []
QuartileShortCircuit(categories_with_quartile, quartiles) ==
    categories_with_quartile = <<>> /\ quartiles # {}

\* The narrowing short-circuit left out.
NarrowShortCircuit_Never(category_ids, cats) == FALSE

\* if category_ids: ...; if not categories_with_quartile: return []
NarrowShortCircuit(category_ids, cats) == category_ids # {} /\ cats = <<>>

\* The APC test of the diamond query left out.
WithoutAPC_All(journals) == journals

\* [journal for journal in self.getAllJournals() if not journal.hasAPC()]
WithoutAPC(journals) == SelectSeq(journals, LAMBDA journal : ~journal.apc)

\* The filter loop as a bug would have it: a journal without identifier is kept
\* under a per-row key instead of being skipped.
RECURSIVE FilterJournalsFrom_KeepsIdless(_, _, _, _, _)
FilterJournalsFrom_KeepsIdless(journals, i, inAreas, inCategories, filtered) ==
    IF i > Len(journals) THEN MapValues(filtered)
    ELSE LET journal == journals[i]
         IN  IF journal.ids = <<>>
             THEN FilterJournalsFrom_KeepsIdless(journals, i + 1, inAreas, inCategories,
                                                 MapPut(filtered, RowKey(i - 1), journal))
             ELSE IF inAreas.active /\ journal.ids[1] \notin inAreas.ids
             THEN FilterJournalsFrom_KeepsIdless(journals, i + 1, inAreas, inCategories,
                                                 filtered)
             ELSE IF inCategories.active /\ journal.ids[1] \notin inCategories.ids
             THEN FilterJournalsFrom_KeepsIdless(journals, i + 1, inAreas, inCategories,
                                                 filtered)
             ELSE FilterJournalsFrom_KeepsIdless(journals, i + 1, inAreas, inCategories,
                                                 MapPut(filtered, journal.ids[1], journal))

\* filtered[journal_issn] = journal, for the journals that pass both filters
RECURSIVE FilterJournalsFrom(_, _, _, _, _)
FilterJournalsFrom(journals, i, inAreas, inCategories, filtered) ==
    IF i > Len(journals) THEN MapValues(filtered)
    ELSE LET journal == journals[i]
         IN  IF journal.ids = <<>>
             THEN FilterJournalsFrom(journals, i + 1, inAreas, inCategories, filtered)
             ELSE IF inAreas.active /\ journal.ids[1] \notin inAreas.ids
             THEN FilterJournalsFrom(journals, i + 1, inAreas, inCategories, filtered)
             ELSE IF inCategories.active /\ journal.ids[1] \notin inCategories.ids
             THEN FilterJournalsFrom(journals, i + 1, inAreas, inCategories, filtered)
             ELSE FilterJournalsFrom(journals, i + 1, inAreas, inCategories,
                                     MapPut(filtered, journal.ids[1], journal))

NoFilter == [active |-> FALSE, ids |-> {}]

\* FullQueryEngine.getJournalsInCategoriesWithQuartile, the body of its try
JournalsInCategoriesWithQuartileBody(category_ids, quartiles) ==
    LET r1 == getCategoriesWithQuartile(quartiles)
        categories_with_quartile == r1.val
    IN  IF r1.exc THEN Thrown(r1.log)
        ELSE IF QuartileShortCircuit(categories_with_quartile, quartiles)
        THEN Returned(<<>>, r1.log)
        ELSE IF category_ids # {} /\ Idless(categories_with_quartile) THEN Thrown(r1.log)
        ELSE LET cats == IF category_ids # {}
                         THEN NarrowCategories(categories_with_quartile, category_ids)
                         ELSE categories_with_quartile
             IN  IF NarrowShortCircuit(category_ids, cats) THEN Returned(<<>>, r1.log)
                 ELSE IF cats = <<>> THEN Returned(<<>>, r1.log)
                 ELSE LET lk == CategoryLookupsFrom(cats, 1, 1, {}, <<>>)
                      IN  IF lk.exc THEN Thrown(r1.log \o lk.log)
                          ELSE LET f == FetchJournalsByIssns(lk.ids)
                               IN  [f EXCEPT !.log = r1.log \o lk.log \o f.log]

\* FullQueryEngine.getJournalsInCategoriesWithQuartile
getJournalsInCategoriesWithQuartile(category_ids, quartiles) ==
    CatchList(JournalsInCategoriesWithQuartileBody(category_ids, quartiles))

\* FullQueryEngine.getJournalsInAreasWithLicense
getJournalsInAreasWithLicense(area_ids, licenses) ==
    LET r0 == getJournalsWithLicense(licenses)
        inAreas == AreaFilter(area_ids)
    IN  CatchList(
            IF r0.exc THEN Thrown(r0.log)
            ELSE IF ~inAreas.active THEN Returned(r0.val, r0.log)
            ELSE Returned(FilterJournalsFrom(r0.val, 1, inAreas, NoFilter, <<>>),
                          r0.log \o inAreas.log))

\* FullQueryEngine.getDiamondJournalsInAreasAndCategoriesWithQuartile, the body of
\* its try
DiamondBody(area_ids, category_ids, quartiles) ==
    LET r0 == getAllJournals
        journals_without_apc == WithoutAPC(r0.val)
        inAreas == AreaFilter(area_ids)
        r1 == getCategoriesWithQuartile(quartiles)
        categories_with_quartile == r1.val
        log1 == r0.log \o inAreas.log \o r1.log
    IN  IF r0.exc THEN Thrown(r0.log)
        ELSE IF r1.exc THEN Thrown(log1)
        ELSE IF QuartileShortCircuit(categories_with_quartile, quartiles)
        THEN Returned(<<>>, log1)
        ELSE IF category_ids # {} /\ Idless(categories_with_quartile) THEN Thrown(log1)
        ELSE LET cats == IF category_ids # {}
                         THEN NarrowCategories(categories_with_quartile, category_ids)
                         ELSE categories_with_quartile
             IN  IF NarrowShortCircuit(category_ids, cats) THEN Returned(<<>>, log1)
                 ELSE LET lk == IF cats # <<>>
                                THEN CategoryLookupsFrom(cats, 1, 1, {}, <<>>)
                                ELSE [exc |-> FALSE, ids |-> {}, log |-> <<>>]
                          inCategories == [active |-> cats # <<>>, ids |-> lk.ids]
                      IN  IF lk.exc THEN Thrown(log1 \o lk.log)
                          ELSE Returned(FilterJournalsFrom(journals_without_apc, 1,
                                                           inAreas, inCategories, <<>>),
                                        log1 \o lk.log)

\* FullQueryEngine.getDiamondJournalsInAreasAndCategoriesWithQuartile
getDiamondJournalsInAreasAndCategoriesWithQuartile(area_ids, category_ids, quartiles) ==
    CatchList(DiamondBody(area_ids, category_ids, quartiles))

----------------------------------------------------------------------------
(* The stores *)

Uri1111 == "http://doaj.org/journal/1111"

\* Four journal handlers: three endpoints that answer, one that is unreachable.
JFixture ==
    [h \in {"j1", "j2", "j3", "j4"} |->
        CASE h = "j1" ->
               [mode |-> "ok",
                rows |-> << Row(Uri1111, "1111", "", "Alpha", "en", "", "False", "CC-BY", "False"),
                            Row("u2", "2222", "", "Beta", "en", "ACME", "True", "CC0", "True"),
                            Row("u3", "3333", "e333", "Gamma", "fr", "", "", "CC0", "False") >>]
          [] h = "j2" ->
               [mode |-> "ok",
                rows |-> << Row(Uri1111, "1111", "", "Alpha", "fr", "ACME", "", "", "True"),
                            Row("u4", "4444", "", "Delta", "en", "", "", "CC-BY", "False"),
                            Row("u5", "", "e555", "Epsilon", "", "", "", "CC0", "False"),
                            Row("u6", "", "", "Zeta", "en", "", "", "CC0", "False") >>]
          [] h = "j3" ->
               [mode |-> "down",
                rows |-> << Row("u2", "2222", "", "Beta", "en", "", "", "CC0", "False") >>]
          [] h = "j4" ->
               [mode |-> "ok",
                rows |-> << Row("u2", "2222", "", "Beta", "it", "", "No", "", "False"),
                            Row("u6", "", "", "Zeta", "de", "", "", "", "") >>]]

\* Four classification handlers: two databases with content, one with empty tables,
\* one without the tables.
CFixture ==
    [h \in {"c1", "c2", "c3", "c4"} |->
        CASE h = "c1" ->
               [ok |-> TRUE,
                categories |-> {[id |-> "C1", quartile |-> "Q1"],
                                [id |-> "C2", quartile |-> "Q2"]},
                areas |-> {"A1", "A2"},
                journal_categories |-> {<<"1111", "C1">>, <<"2222", "C1">>, <<"3333", "C2">>},
                journal_areas |-> {<<"1111", "A1">>, <<"2222", "A1">>, <<"3333", "A2">>}]
          [] h = "c2" ->
               [ok |-> TRUE,
                categories |-> {[id |-> "C1", quartile |-> ""],
                                [id |-> "C2", quartile |-> "Q3"],
                                [id |-> "C3", quartile |-> "Q1"]},
                areas |-> {"A1"},
                journal_categories |-> {<<"e555", "C1">>, <<"4444", "C3">>, <<"1111", "C3">>},
                journal_areas |-> {<<"e555", "A1">>, <<"4444", "A1">>}]
          [] h = "c3" ->
               [ok |-> TRUE, categories |-> {}, areas |-> {},
                journal_categories |-> {}, journal_areas |-> {}]
          [] h = "c4" ->
               [ok |-> FALSE, categories |-> {}, areas |-> {},
                journal_categories |-> {}, journal_areas |-> {}]]

\* The large stores of SpecChunk.  "asc": one row per identifier, titles in
\* identifier order.  "desc": one row per identifier, titles in the reverse order,
\* so ORDER BY ?title gives the identifiers backwards.  "pairs": every fourth
\* journal has two rows (two languages), every second journal an EISSN only.
ChunkShapes == {"asc", "desc", "pairs"}

ChunkRows(shape) ==
    CASE shape = "asc" ->
           [k \in 1..MaxIds |->
               Row(BigIds[k], BigIds[k], "", BigIds[k], "en", "", "", "CC0", "False")]
      [] shape = "desc" ->
           [k \in 1..MaxIds |->
               LET id == BigIds[MaxIds + 1 - k]
               IN  Row(id, id, "", BigIds[k], "fr", "ACME", "True", "", "True")]
      [] shape = "pairs" ->
           [k \in 1..(5 * (MaxIds \div 4) + (MaxIds % 4)) |->
               LET r == (k - 1) % 5
                   n == 4 * ((k - 1) \div 5) + (IF r = 4 THEN 4 ELSE r + 1)
                   id == BigIds[n]
               IN  Row(id, IF n % 2 = 0 THEN id ELSE "", IF n % 2 = 0 THEN "" ELSE id,
                       id, IF r = 4 THEN "it" ELSE "de", "", "No", "CC-BY", "")]

\* The numbers of identifiers asked for: around every multiple of the chunk size.
ChunkCases == {n \in 0..MaxIds : n % ChunkSize \in {0, 1, 2, ChunkSize - 1}}

\* The rows the endpoints of SpecMerge draw from.
MergePool ==
    { Row(Uri1111, "1111", "", "X", "en", "", "", "", ""),
      Row("", "1111", "", " ", "fr", "ACME", "False", "", "True "),
      Row(Uri1111, "1111", "e111", "Y", " en", "Elsevier", "True", "CC-BY", "False"),
      Row("", "", "e222", "W", "de", "", "", "CC0", ""),
      Row("", "", "", "Z", "en", "ACME", "", "", "True"),
      Row("u9", "", "", "U", "fr", "", "yes", "CC0", "") }

\* The rows the handlers of SpecMalformed draw from: handlers that deliver the seal
\* and APC columns with missing values as pandas.NA.
MalformedPool ==
    { Row("", "1111", "", "X", "en", "", "", "CC0", ""),
      Row("", "1111", "", "Y", "fr", "ACME", NA, "", ""),
      Row("", "2222", "", "W", "de", "", "True", "CC0", "False"),
      Row("", "", "e333", "V", "it", "", "", "CC0", NA) }

----------------------------------------------------------------------------
(* The arguments the caller passes *)

AreaArgs == SUBSET {"A1", "A2"}
CategoryArgs == SUBSET {"C1", "C2"}
QuartileArgs == {{}, {"Q1"}, {"Q2"}, {"Q9"}}
LicenseArgs == {{}, {"CC0"}, {"CC-BY", "CC0"}, {"GPL"}}

EntityIdArgs == {"1111", "e555", "C1", "A1", "none"}

Args(area_ids, category_ids, quartiles, licenses) ==
    [area_ids |-> area_ids, category_ids |-> category_ids,
     quartiles |-> quartiles, licenses |-> licenses, entity_id |-> "", handler |-> ""]

NoArgs == Args({}, {}, {}, {})

NoCall == [op |-> "none", args |-> NoArgs, res |-> Returned(<<>>, <<>>)]

----------------------------------------------------------------------------
(* Initial states *)

\* BasicQueryEngine.__init__, over the four journal and four classification handlers
Init ==
    /\ journalQuery = <<>>
    /\ categoryQuery = <<>>
    /\ jstore = JFixture
    /\ cstore = CFixture
    /\ pc = "idle"
    /\ last = NoCall
    /\ entity = NewJournal
    /\ call = NoMutation

\* BasicQueryEngine.__init__, over two journal endpoints holding at most MaxRows
\* rows of MergePool together
InitMerge ==
    /\ journalQuery = <<>>
    /\ categoryQuery = <<>>
    /\ \E n1 \in 0..MaxRows : \E n2 \in 0..(MaxRows - n1) :
          \E rows1 \in [1..n1 -> MergePool] : \E rows2 \in [1..n2 -> MergePool] :
             jstore = [h \in {"j1", "j2"} |->
                          [mode |-> "ok", rows |-> IF h = "j1" THEN rows1 ELSE rows2]]
    /\ cstore = CFixture
    /\ pc = "idle"
    /\ last = NoCall
    /\ entity = NewJournal
    /\ call = NoMutation

\* BasicQueryEngine.__init__, over two journal handlers holding at most MaxRows rows
\* of MalformedPool together
InitMalformed ==
    /\ journalQuery = <<>>
    /\ categoryQuery = <<>>
    /\ \E n1 \in 0..MaxRows : \E n2 \in 0..(MaxRows - n1) :
          \E rows1 \in [1..n1 -> MalformedPool] : \E rows2 \in [1..n2 -> MalformedPool] :
             jstore = [h \in {"j1", "j2"} |->
                          [mode |-> "ok", rows |-> IF h = "j1" THEN rows1 ELSE rows2]]
    /\ cstore = CFixture
    /\ pc = "idle"
    /\ last = NoCall
    /\ entity = NewJournal
    /\ call = NoMutation

\* The rows an endpoint of SpecFresh holds at one time or another.
FreshStores ==
    { <<>>,
      << Row(Uri1111, "1111", "", "X", "en", "", "", "CC0", "") >>,
      << Row(Uri1111, "1111", "", "Y", "fr", "ACME", "True", "", ""),
         Row("u2", "2222", "", "W", "de", "", "", "CC-BY", "True") >> }

\* BasicQueryEngine.__init__, over two journal endpoints whose content changes
InitFresh ==
    /\ journalQuery = <<>>
    /\ categoryQuery = <<>>
    /\ jstore \in [{"j1", "j2"} -> [mode : {"ok"}, rows : FreshStores]]
    /\ cstore = CFixture
    /\ pc = "idle"
    /\ last = NoCall
    /\ entity = NewJournal
    /\ call = NoMutation

\* BasicQueryEngine.__init__, over two large journal endpoints and one database that
\* files the first n journals under category C1
InitChunk ==
    /\ journalQuery = <<>>
    /\ categoryQuery = <<>>
    /\ \E s1 \in ChunkShapes, s2 \in ChunkShapes :
          jstore = [h \in {"j1", "j2"} |->
                       [mode |-> "ok", rows |-> ChunkRows(IF h = "j1" THEN s1 ELSE s2)]]
    /\ \E n \in ChunkCases : \E blank \in IF n \in {0, ChunkSize + 1} THEN {0, 1} ELSE {0} :
          cstore = [h \in {"c1"} |->
                       [ok |-> TRUE,
                        categories |-> {[id |-> "C1", quartile |-> "Q1"]},
                        areas |-> {},
                        journal_categories |-> {<<BigIds[k], "C1">> : k \in 1..n}
                                               \cup {<<"", "C1">> : b \in 1..blank},
                        journal_areas |-> {}]]
    /\ pc = "idle"
    /\ last = NoCall
    /\ entity = NewJournal
    /\ call = NoMutation

----------------------------------------------------------------------------
(* Actions *)

\* Python None passed for a handler
NoneHandler == "None"

\* The methods that manage the two handler collections.
RegistryOps == {"addJournalHandler", "addCategoryHandler",
                "cleanJournalHandlers", "cleanCategoryHandlers"}

\* A registry method is called with handler and returns ret.
Registered(op, handler, ret) ==
    /\ pc' = "returned"
    /\ last' = [op |-> op, args |-> [NoArgs EXCEPT !.handler = handler],
                res |-> Returned(ret, <<>>)]

\* addJournalHandler without the membership test.
AddJournalHandler_NoTest(handler) ==
    /\ pc = "idle"
    /\ Len(journalQuery) < MaxHandlers
    /\ journalQuery' = IF handler # NoneHandler
                       THEN Append(journalQuery, handler) ELSE journalQuery
    /\ Registered("addJournalHandler", handler, TRUE)
    /\ UNCHANGED <<categoryQuery, jstore, cstore, entity, call>>

\* addJournalHandler as a bug would have it: a handler registered again is taken
\* out and appended, and the method answers False for it.
AddJournalHandler_MovesToEnd(handler) ==
    /\ pc = "idle"
    /\ handler \in Range(journalQuery) \cup {NoneHandler} \/ Len(journalQuery) < MaxHandlers
    /\ journalQuery' = IF handler # NoneHandler
                       THEN Append(SelectSeq(journalQuery, LAMBDA h : h # handler), handler)
                       ELSE journalQuery
    /\ Registered("addJournalHandler", handler, handler \notin Range(journalQuery))
    /\ UNCHANGED <<categoryQuery, jstore, cstore, entity, call>>

\* BasicQueryEngine.addJournalHandler
AddJournalHandler(handler) ==
    /\ pc = "idle"
    /\ handler \in Range(journalQuery) \cup {NoneHandler} \/ Len(journalQuery) < MaxHandlers
    /\ journalQuery' = IF handler # NoneHandler /\ handler \notin Range(journalQuery)
                       THEN Append(journalQuery, handler) ELSE journalQuery
    /\ Registered("addJournalHandler", handler, TRUE)
    /\ UNCHANGED <<categoryQuery, jstore, cstore, entity, call>>

\* BasicQueryEngine.addCategoryHandler
AddCategoryHandler(handler) ==
    /\ pc = "idle"
    /\ handler \in Range(categoryQuery) \cup {NoneHandler} \/ Len(categoryQuery) < MaxHandlers
    /\ categoryQuery' = IF handler # NoneHandler /\ handler \notin Range(categoryQuery)
                        THEN Append(categoryQuery, handler) ELSE categoryQuery
    /\ Registered("addCategoryHandler", handler, TRUE)
    /\ UNCHANGED <<journalQuery, jstore, cstore, entity, call>>

\* BasicQueryEngine.cleanJournalHandlers
CleanJournalHandlers ==
    /\ pc = "idle"
    /\ journalQuery' = <<>>
    /\ Registered("cleanJournalHandlers", "", TRUE)
    /\ UNCHANGED <<categoryQuery, jstore, cstore, entity, call>>

\* BasicQueryEngine.cleanCategoryHandlers
CleanCategoryHandlers ==
    /\ pc = "idle"
    /\ categoryQuery' = <<>>
    /\ Registered("cleanCategoryHandlers", "", TRUE)
    /\ UNCHANGED <<journalQuery, jstore, cstore, entity, call>>

\* A public query method is called and returns res.
Respond(op, args, res) ==
    /\ pc = "idle"
    /\ pc' = "returned"
    /\ last' = [op |-> op, args |-> args, res |-> res]
    /\ UNCHANGED <<journalQuery, categoryQuery, jstore, cstore, entity, call>>

GetEntityById ==
    \E entity_id \in EntityIdArgs :
        Respond("getEntityById", [NoArgs EXCEPT !.entity_id = entity_id],
                getEntityById(entity_id))

GetAllJournals == Respond("getAllJournals", NoArgs, getAllJournals)

GetJournalsWithLicense ==
    \E licenses \in LicenseArgs :
        Respond("getJournalsWithLicense", Args({}, {}, {}, licenses),
                getJournalsWithLicense(licenses))

GetAllCategories == Respond("getAllCategories", NoArgs, getAllCategories)

GetAllAreas == Respond("getAllAreas", NoArgs, getAllAreas)

GetCategoriesWithQuartile ==
    \E quartiles \in QuartileArgs :
        Respond("getCategoriesWithQuartile", Args({}, {}, quartiles, {}),
                getCategoriesWithQuartile(quartiles))

GetCategoriesAssignedToAreas ==
    \E area_ids \in AreaArgs :
        Respond("getCategoriesAssignedToAreas", Args(area_ids, {}, {}, {}),
                getCategoriesAssignedToAreas(area_ids))

GetAreasAssignedToCategories ==
    \E category_ids \in CategoryArgs :
        Respond("getAreasAssignedToCategories", Args({}, category_ids, {}, {}),
                getAreasAssignedToCategories(category_ids))

GetJournalsInCategoriesWithQuartile ==
    \E category_ids \in CategoryArgs, quartiles \in QuartileArgs :
        Respond("getJournalsInCategoriesWithQuartile",
                Args({}, category_ids, quartiles, {}),
                getJournalsInCategoriesWithQuartile(category_ids, quartiles))

GetJournalsInAreasWithLicense ==
    \E area_ids \in AreaArgs, licenses \in LicenseArgs :
        Respond("getJournalsInAreasWithLicense", Args(area_ids, {}, {}, licenses),
                getJournalsInAreasWithLicense(area_ids, licenses))

GetDiamondJournals ==
    \E area_ids \in AreaArgs, category_ids \in CategoryArgs, quartiles \in QuartileArgs :
        Respond("getDiamondJournalsInAreasAndCategoriesWithQuartile",
                Args(area_ids, category_ids, quartiles, {}),
                getDiamondJournalsInAreasAndCategoriesWithQuartile(
                    area_ids, category_ids, quartiles))

\* The caller takes the response; the engine keeps nothing of it.
Return ==
    /\ pc = "returned"
    /\ pc' = "idle"
    /\ last' = NoCall
    /\ UNCHANGED <<journalQuery, categoryQuery, jstore, cstore, entity, call>>

Next ==
    \/ \E handler \in DOMAIN jstore \cup {NoneHandler} : AddJournalHandler(handler)
    \/ \E handler \in DOMAIN cstore \cup {NoneHandler} : AddCategoryHandler(handler)
    \/ CleanJournalHandlers
    \/ CleanCategoryHandlers
    \/ GetEntityById
    \/ GetAllJournals
    \/ GetJournalsWithLicense
    \/ GetAllCategories
    \/ GetAllAreas
    \/ GetCategoriesWithQuartile
    \/ GetCategoriesAssignedToAreas
    \/ GetAreasAssignedToCategories
    \/ GetJournalsInCategoriesWithQuartile
    \/ GetJournalsInAreasWithLicense
    \/ GetDiamondJournals
    \/ Return

Spec == Init /\ [][Next]_vars

\* The journal side alone, over endpoints with arbitrary rows.
NextMerge ==
    \/ \E handler \in DOMAIN jstore : AddJournalHandler(handler)
    \/ CleanJournalHandlers
    \/ GetAllJournals
    \/ GetJournalsWithLicense
    \/ Return

SpecMerge == InitMerge /\ [][NextMerge]_vars

\* Lookups by identifier over the endpoints of SpecMerge.
NextLookup ==
    \/ \E handler \in DOMAIN jstore : AddJournalHandler(handler)
    \/ CleanJournalHandlers
    \/ GetEntityById
    \/ Return

SpecLookup == InitMerge /\ [][NextLookup]_vars

\* The caller takes the response and keeps the list it was given.
Keep ==
    /\ pc = "returned"
    /\ pc' = "idle"
    /\ last' = NoCall
    /\ call' = [m |-> "kept", arg |-> [op |-> last.op, args |-> last.args],
                before |-> last.res.val]
    /\ UNCHANGED <<journalQuery, categoryQuery, jstore, cstore, entity>>

\* The content of an endpoint changes between two calls.
StoreChanges ==
    /\ pc = "idle"
    /\ \E h \in DOMAIN jstore : \E rows \in FreshStores \ {jstore[h].rows} :
          jstore' = [jstore EXCEPT ![h].rows = rows]
    /\ UNCHANGED <<journalQuery, categoryQuery, cstore, pc, last, entity, call>>

\* The journal side alone, over endpoints whose content changes between calls.
NextFresh ==
    \/ \E handler \in DOMAIN jstore : AddJournalHandler(handler)
    \/ CleanJournalHandlers
    \/ GetAllJournals
    \/ GetJournalsWithLicense
    \/ Keep
    \/ StoreChanges

SpecFresh == InitFresh /\ [][NextFresh]_vars

\* The journal side alone, over handlers whose rows can hold a malformed cell.
SpecMalformed == InitMalformed /\ [][NextMerge]_vars

\* The batched fetch, over large endpoints.
NextChunk ==
    \/ \E handler \in DOMAIN jstore : AddJournalHandler(handler)
    \/ \E handler \in DOMAIN cstore : AddCategoryHandler(handler)
    \/ CleanJournalHandlers
    \/ CleanCategoryHandlers
    \/ GetJournalsInCategoriesWithQuartile
    \/ Return

SpecChunk == InitChunk /\ [][NextChunk]_vars

----------------------------------------------------------------------------
(* Properties *)

Done(op) == pc = "returned" /\ last.op = op
Result == last.res.val
ResultIds == {Result[i].ids : i \in 1..Len(Result)}

\* The rows the registered journal handlers answer to getAllJournals, in
\* registration order then row order.
RowsSeen == Concat([i \in 1..Len(journalQuery) |-> HJournalCall(journalQuery[i], "getAllJournals", {}).df])

\* The first cell with a value, stripped; dflt when there is none.
FirstValue(cells, dflt) ==
    IF \E k \in 1..Len(cells) : HasValue(cells[k])
    THEN Strip(cells[CHOOSE k \in 1..Len(cells) :
                        /\ HasValue(cells[k])
                        /\ \A m \in 1..(k - 1) : ~HasValue(cells[m])])
    ELSE dflt

\* The values of a sequence in order of first appearance, each once.
RECURSIVE FirstAppearances(_)
FirstAppearances(cells) ==
    IF cells = <<>> THEN <<>>
    ELSE LET init == FirstAppearances(SubSeq(cells, 1, Len(cells) - 1))
             x == cells[Len(cells)]
         IN  IF x \in Range(init) THEN init ELSE Append(init, x)

RowsWithIssn(issn) == SelectSeq(RowsSeen, LAMBDA r : Strip(r.issn) = issn)

Column(rows, col) == [k \in 1..Len(rows) |-> rows[k][col]]

ValuesOf(cells) ==
    LET present == SelectSeq(cells, HasValue)
    IN  [k \in 1..Len(present) |-> Strip(present[k])]

\* C1: getAllJournals returns exactly one Journal for every non-empty ISSN its
\* handlers' rows carry; its title, publisher and licence are the first non-empty
\* values in registration order then row order, and its languages are the rows'
\* languages in order of first appearance, each once.
C1_MergedByIssn ==
    Done("getAllJournals") =>
        \A issn \in {Strip(RowsSeen[k].issn) : k \in 1..Len(RowsSeen)} \ {""} :
            LET rows == RowsWithIssn(issn)
                found == {i \in 1..Len(Result) : Result[i].ids = <<issn>>}
            IN  /\ Cardinality(found) = 1
                /\ \A i \in found :
                      /\ Result[i].title = FirstValue(Column(rows, "title"), "")
                      /\ Result[i].publisher = FirstValue(Column(rows, "publisher"), NoneStr)
                      /\ Result[i].licence = FirstValue(Column(rows, "licence"), "")
                      /\ Result[i].languages =
                             FirstAppearances(ValuesOf(Column(rows, "language")))

\* C1 witness: the scenario of the specification, two handlers holding ISSN 1111.
C1_Witness ==
    /\ Done("getAllJournals")
    /\ Len(journalQuery) = 2
    /\ \A i \in 1..2 : \E k \in 1..Len(jstore[journalQuery[i]].rows) :
          jstore[journalQuery[i]].rows[k].issn = "1111"
    /\ Len(Result) = 1
    /\ Result[1].ids = <<"1111">>
    /\ Result[1].title = "X"
    /\ Result[1].publisher = "ACME"
    /\ Result[1].languages = <<"en", "fr">>

\* The entities a handler that did not fail contributes to a get-many operation.
JournalIdsOf(h, m, arg) ==
    LET df == HJournalCall(h, m, arg).df
    IN  {Strip(AnyId(df[k])) : k \in 1..Len(df)} \ {""}

CategoryIdsOf(h, m, arg) ==
    LET df == HCategoryCall(h, m, arg).df
    IN  {df[k].id : k \in 1..Len(df)}

\* C2 (as claimed): in a get-many operation the records of every handler that did
\* not fail are in the returned list, also when another handler raised.
C2_PartialSuccessPreserved ==
    /\ \A m \in {"getAllJournals", "getJournalsWithLicense"} :
          Done(m) =>
             \A h \in Range(journalQuery) :
                      \A id \in JournalIdsOf(h, m, last.args.licenses) : <<id>> \in ResultIds
    /\ \A m \in {"getAllCategories", "getAllAreas", "getCategoriesWithQuartile"} :
          Done(m) =>
             \A h \in Range(categoryQuery) :
                cstore[h].ok =>
                   \A id \in CategoryIdsOf(h, m, last.args.quartiles) : <<id>> \in ResultIds

\* A handler raised during the last call.
SomeHandlerRaised ==
    \E i \in 1..Len(last.res.log) :
        /\ last.res.log[i].h \in DOMAIN cstore
        /\ ~cstore[last.res.log[i].h].ok
        /\ last.res.log[i].m \notin {"_get_issns_for_category", "_get_issns_for_area"}

\* The methods of BasicQueryEngine: one fan-out under one try.
BasicOps == {"getEntityById", "getAllJournals", "getJournalsWithLicense",
             "getAllCategories", "getAllAreas", "getCategoriesWithQuartile",
             "getCategoriesAssignedToAreas", "getAreasAssignedToCategories"}

RowsWithoutId == SelectSeq(RowsSeen, LAMBDA r : ~HasValue(r.issn) /\ ~HasValue(r.eissn))

\* C4 (as claimed): a row with neither ISSN nor EISSN gets a synthetic key that
\* matches no other row, so it is merged with no other row and yields its own
\* Journal: when the rows without identifier carry no journal URI either, the
\* result holds one identifier-less Journal per such row.
C4_RowsWithoutIdNeverMerged ==
    /\ Done("getAllJournals")
    /\ \A k \in 1..Len(RowsWithoutId) : ~HasValue(RowsWithoutId[k].journal)
    => Cardinality({i \in 1..Len(Result) : Result[i].ids = <<>>}) = Len(RowsWithoutId)

----------------------------------------------------------------------------
(* The classification stores, read directly *)

OkHandlers == {h \in Range(categoryQuery) : cstore[h].ok}

\* The journal ids the registered databases hold for the areas / the categories.
AreaUnion(area_ids) ==
    {p[1] : p \in {q \in UNION {cstore[h].journal_areas : h \in OkHandlers} :
                      q[2] \in area_ids}}
CategoryUnion(category_ids) ==
    {p[1] : p \in {q \in UNION {cstore[h].journal_categories : h \in OkHandlers} :
                      q[2] \in category_ids}}

\* The categories the quartile resolution yields: those some registered database
\* holds with one of the quartiles (all of them for no quartile); none when a
\* database of a registered handler cannot be queried.
Resolved(quartiles) ==
    IF OkHandlers # Range(categoryQuery) THEN {}
    ELSE {c.id : c \in {x \in UNION {cstore[h].categories : h \in OkHandlers} :
                           quartiles = {} \/ x.quartile \in quartiles}}

\* The categories that survive the narrowing to category_ids.
Surviving(category_ids, quartiles) ==
    IF category_ids = {} THEN Resolved(quartiles)
    ELSE Resolved(quartiles) \cap category_ids

\* The merged view of getAllJournals.
MergedJournals == Range(getAllJournals.val)

A == last.args
Diamond == "getDiamondJournalsInAreasAndCategoriesWithQuartile"

\* C5 (as claimed): with categoryIds and quartiles both empty the diamond query
\* applies no category filter: every APC=false journal with an identifier that
\* passes the area filter is returned.
C5_NoCategoryFilterWhenBothEmpty ==
    Done(Diamond) /\ A.category_ids = {} /\ A.quartiles = {} =>
        \A j \in MergedJournals :
            /\ ~j.apc
            /\ j.ids # <<>>
            /\ A.area_ids = {} \/ j.ids[1] \in AreaUnion(A.area_ids)
            => j \in Range(Result)

\* C6: every journal the diamond query returns has APC = false in the merged view,
\* is in the union of the areas' journal ids when areaIds is non-empty, and in the
\* union of the surviving categories' journal ids when categoryIds or quartiles is
\* non-empty; for ({}, {}, {Q1}) over one APC=false and one APC=true journal in a
\* Q1 category only the first is returned.
C6_DiamondResultSound ==
    Done(Diamond) =>
        /\ \A j \in Range(Result) :
              /\ j \in MergedJournals
              /\ ~j.apc
              /\ j.ids # <<>>
              /\ A.area_ids # {} => j.ids[1] \in AreaUnion(A.area_ids)
              /\ A.category_ids # {} \/ A.quartiles # {} =>
                    j.ids[1] \in CategoryUnion(Surviving(A.category_ids, A.quartiles))
        /\ ( /\ journalQuery = <<"j1">>
             /\ categoryQuery = <<"c1">>
             /\ A.area_ids = {} /\ A.category_ids = {} /\ A.quartiles = {"Q1"} )
           => ResultIds = {<<"1111">>}

\* C6 witness: all three filters given, a journal returned, and an APC=true journal
\* of the same areas and categories left out.
C6_Witness ==
    /\ Done(Diamond)
    /\ A.area_ids # {} /\ A.category_ids # {} /\ A.quartiles # {}
    /\ Result # <<>>
    /\ \E j \in MergedJournals :
          /\ j.apc
          /\ j.ids # <<>>
          /\ j.ids[1] \in AreaUnion(A.area_ids)
          /\ j.ids[1] \in CategoryUnion(Surviving(A.category_ids, A.quartiles))
          /\ j \notin Range(Result)

\* The category stage of the diamond query lets the identifier through.
PassesCategories(id) ==
    LET resolved == Resolved(A.quartiles)
        surviving == Surviving(A.category_ids, A.quartiles)
    IN  /\ ~(A.quartiles # {} /\ resolved = {})
        /\ ~(A.category_ids # {} /\ surviving = {})
        /\ surviving = {} \/ id \in CategoryUnion(surviving)

\* C7: the area filter is tri-state.  Empty areaIds: getJournalsInAreasWithLicense
\* returns the licence-filtered list itself, and the diamond query returns every
\* APC=false journal that passes its category stage, whatever its areas.  Non-empty
\* areaIds whose areas hold no journal id in any registered database: the result
\* is empty.
C7_AreaFilterTriState ==
    /\ Done(Diamond) \/ Done("getJournalsInAreasWithLicense") =>
          (A.area_ids # {} /\ AreaUnion(A.area_ids) = {} => Result = <<>>)
    /\ Done("getJournalsInAreasWithLicense") /\ A.area_ids = {} =>
          Result = getJournalsWithLicense(A.licenses).val
    /\ Done(Diamond) /\ A.area_ids = {} =>
          \A j \in MergedJournals :
              ~j.apc /\ j.ids # <<>> /\ PassesCategories(j.ids[1]) => j \in Range(Result)

\* C7 witness: areas are asked for that hold no journal id, the answer is empty,
\* and the same query without areas answers journals.
C7_Witness ==
    /\ Done(Diamond)
    /\ A.area_ids # {}
    /\ AreaUnion(A.area_ids) = {}
    /\ Result = <<>>
    /\ getDiamondJournalsInAreasAndCategoriesWithQuartile(
           {}, A.category_ids, A.quartiles).val # <<>>

\* The calls that follow the quartile resolution in the composite queries.
AfterResolution == {"_get_issns_for_category", "getJournalsByIssns"}

\* C8: in both quartile compositions, when quartiles is non-empty and the
\* resolution yields no category, the result is empty and no store call follows
\* the resolution: no journal-id lookup of a category, no batched fetch, and no
\* call at all after the last getCategoriesWithQuartile.
C8_QuartileShortCircuit ==
    /\ Done(Diamond) \/ Done("getJournalsInCategoriesWithQuartile")
    /\ A.quartiles # {}
    /\ Resolved(A.quartiles) = {}
    => LET log == last.res.log
       IN  /\ Result = <<>>
           /\ \A i \in 1..Len(log) : log[i].m \notin AfterResolution
           /\ \A i \in 1..Len(log) : log[i].m = "getCategoriesWithQuartile" =>
                 \A k \in (i + 1)..Len(log) : log[k].m = "getCategoriesWithQuartile"
           /\ Done("getJournalsInCategoriesWithQuartile") =>
                 \A i \in 1..Len(log) : log[i].m = "getCategoriesWithQuartile"

\* C8 witness: a quartile no category has, with journals and categories in the
\* stores that the query would otherwise reach.
C8_Witness ==
    /\ Done(Diamond)
    /\ A.quartiles = {"Q9"}
    /\ A.category_ids = {}
    /\ Resolved({}) # {}
    /\ \E j \in MergedJournals : ~j.apc /\ j.ids # <<>>
    /\ \E i \in 1..Len(last.res.log) : last.res.log[i].m = "getCategoriesWithQuartile"
    /\ Result = <<>>

\* C9: in the diamond query, when quartiles is non-empty and no category has one
\* of them, or categoryIds is non-empty and the narrowing leaves no category, the
\* result is empty for every areaIds.
C9_CategoryFilterAuthoritative ==
    /\ Done(Diamond)
    /\ \/ A.quartiles # {} /\ Resolved(A.quartiles) = {}
       \/ A.category_ids # {} /\ Surviving(A.category_ids, A.quartiles) = {}
    => Result = <<>>

\* C9 witness: the narrowing leaves no category although the quartiles resolve,
\* and the area filter alone lets an APC=false journal through.
C9_Witness ==
    /\ Done(Diamond)
    /\ A.category_ids # {}
    /\ Resolved(A.quartiles) # {}
    /\ Surviving(A.category_ids, A.quartiles) = {}
    /\ A.area_ids # {}
    /\ \E j \in MergedJournals :
          ~j.apc /\ j.ids # <<>> /\ j.ids[1] \in AreaUnion(A.area_ids)
    /\ Result = <<>>

\* C10: getJournalsInCategoriesWithQuartile returns the batched fetch of the union,
\* over the registered classification handlers and the surviving categories, of
\* the categories' journal ids, and the empty list when no category survives.
C10_JournalsInCategories ==
    Done("getJournalsInCategoriesWithQuartile") =>
        LET surviving == Surviving(A.category_ids, A.quartiles)
        IN  IF surviving = {} THEN Result = <<>>
            ELSE Result = CatchList(FetchJournalsByIssns(CategoryUnion(surviving))).val

\* C10 witness: two classification handlers each contribute a journal id the other
\* does not hold for the surviving categories, and both journals are fetched.
C10_Witness ==
    /\ Done("getJournalsInCategoriesWithQuartile")
    /\ A.category_ids # {}
    /\ Len(categoryQuery) = 2
    /\ LET surviving == Surviving(A.category_ids, A.quartiles)
           ids(h) == {p[1] : p \in {q \in cstore[h].journal_categories : q[2] \in surviving}}
       IN  /\ ids(categoryQuery[1]) \ ids(categoryQuery[2]) # {}
           /\ ids(categoryQuery[2]) \ ids(categoryQuery[1]) # {}
           /\ \A h \in Range(categoryQuery) : \E id \in ids(h) : <<id>> \in ResultIds

----------------------------------------------------------------------------
(* Areas with licence, chunking, the registry, single lookups *)

\* C11: getJournalsInAreasWithLicense returns the list of getJournalsWithLicense
\* unchanged when areaIds is empty; otherwise exactly the journals of that list
\* whose identifier is in the union, over the areas of areaIds and the registered
\* classification handlers, of the area's journal ids, in the order of that list.
C11_JournalsInAreasWithLicense ==
    Done("getJournalsInAreasWithLicense") =>
        LET licensed == getJournalsWithLicense(A.licenses).val
        IN  Result = IF A.area_ids = {} THEN licensed
                     ELSE SelectSeq(licensed,
                              LAMBDA j : j.ids # <<>> /\ j.ids[1] \in AreaUnion(A.area_ids))

\* C11 witness: two classification handlers each hold a journal of the areas the
\* other does not, both journals are returned, and a journal of the licence-filtered
\* list outside the areas is left out.
C11_Witness ==
    /\ Done("getJournalsInAreasWithLicense")
    /\ A.area_ids # {}
    /\ A.licenses # {}
    /\ Len(categoryQuery) = 2
    /\ LET ids(h) == UNION {GetIssnsForArea(h, a) : a \in A.area_ids}
       IN  \A h \in Range(categoryQuery) :
              \E id \in ids(h) : /\ <<id>> \in ResultIds
                                 /\ \A g \in Range(categoryQuery) \ {h} : id \notin ids(g)
    /\ Len(Result) < Len(getJournalsWithLicense(A.licenses).val)

\* One getJournalsByIssns call per handler for the whole identifier set, merged by
\* _collect_journals: the fetch against a backend without size limit.
UnchunkedFetch(issns) ==
    LET cleaned_ids == SortedBy(IdOrder, issns \ {""})
    IN  IF cleaned_ids = <<>> THEN Returned(<<>>, <<>>)
        ELSE FetchFrom(<<cleaned_ids>>, 1, 1, <<>>, <<>>)

\* The identifiers the last getJournalsInCategoriesWithQuartile hands to the fetch.
FetchedIds == CategoryUnion(Surviving(A.category_ids, A.quartiles))

\* C12 (as claimed): the batched fetch returns results identical to those of one
\* unchunked call per handler merged by the same algorithm: the same list.
C12_ChunkedFetchIdentical ==
    Done("getJournalsInCategoriesWithQuartile") =>
        Result = UnchunkedFetch(FetchedIds).val

\* C12 (amended): the batched fetch returns the same merged journals as one
\* unchunked call per handler, each once and with the same field values; no
\* journal is dropped or duplicated at a chunk boundary.
C12_ChunkedFetchSameJournals ==
    Done("getJournalsInCategoriesWithQuartile") =>
        LET whole == UnchunkedFetch(FetchedIds).val
        IN  /\ Range(Result) = Range(whole)
            /\ Len(Result) = Len(whole)
            /\ Cardinality(ResultIds) = Len(Result)

\* C12 witness: more identifiers than one chunk holds, two handlers, each asked
\* more than once, and a journal on either side of the chunk boundary returned.
C12_Witness ==
    /\ Done("getJournalsInCategoriesWithQuartile")
    /\ Cardinality(FetchedIds) > ChunkSize
    /\ Len(journalQuery) = 2
    /\ \A h \in Range(journalQuery) :
          Cardinality({i \in 1..Len(last.res.log) :
                          /\ last.res.log[i].h = h
                          /\ last.res.log[i].m = "getJournalsByIssns"}) >= 2
    /\ Len(Result) = Cardinality(FetchedIds)
    /\ <<BigIds[ChunkSize]>> \in ResultIds
    /\ <<BigIds[ChunkSize + 1]>> \in ResultIds

\* The entries a collection holds for a handler.
Entries(collection, handler) == {i \in 1..Len(collection) : collection[i] = handler}

\* C13: whatever handlers were added and whichever collections were cleared,
\* neither collection holds a handler twice: a handler registered again has
\* exactly one entry.
C13_NoHandlerTwice ==
    /\ \A handler \in DOMAIN jstore : Cardinality(Entries(journalQuery, handler)) <= 1
    /\ \A handler \in DOMAIN cstore : Cardinality(Entries(categoryQuery, handler)) <= 1

\* C13 witness: both collections hold as many handlers as they may, so that every
\* further registration is of a handler already registered.
C13_Witness ==
    /\ pc = "idle"
    /\ Len(journalQuery) = MaxHandlers
    /\ Len(categoryQuery) = MaxHandlers
    /\ \A handler \in Range(journalQuery) : ENABLED AddJournalHandler(handler)

\* The rows an endpoint holds under an identifier (ISSN or EISSN); none when the
\* endpoint is unreachable.
JournalHits(h, id) ==
    IF jstore[h].mode # "ok" THEN <<>>
    ELSE SelectSeq(jstore[h].rows, LAMBDA r : r.issn = id \/ r.eissn = id)

\* A database holds the identifier as a category, or as an area.
HoldsCategory(h, id) == cstore[h].ok /\ \E c \in cstore[h].categories : c.id = id
HoldsArea(h, id) == cstore[h].ok /\ id \in cstore[h].areas

\* The handlers of a collection before its i-th.
Before(collection, i) == {collection[k] : k \in 1..(i - 1)}

----------------------------------------------------------------------------
(* Merging *)

\* The identifier a journal row is keyed by; "" when it has neither ISSN nor EISSN.
KeyId(r) == IF HasValue(r.issn) THEN Strip(r.issn) ELSE Strip(r.eissn)

\* The rows of the last getAllJournals keyed by an identifier, in processing order.
RowsWithKey(id) == SelectSeq(RowsSeen, LAMBDA r : KeyId(r) = id)

\* The flag the last cell with a value gives; FALSE when no cell has one.
LastFlag(cells) ==
    IF \E k \in 1..Len(cells) : HasValue(cells[k])
    THEN ToBool(cells[CHOOSE k \in 1..Len(cells) :
                         /\ HasValue(cells[k])
                         /\ \A m \in (k + 1)..Len(cells) : ~HasValue(cells[m])])
    ELSE FALSE

\* C15: the seal flag and the APC flag of a merged Journal are those of the last
\* row, in processing order, whose cell has a value, and false when no row has
\* one; a row whose cell is absent or empty changes nothing.
C15_FlagsLastWriterWins ==
    Done("getAllJournals") =>
        \A i \in 1..Len(Result) :
            Result[i].ids # <<>> =>
                LET rows == RowsWithKey(Result[i].ids[1])
                IN  /\ Result[i].seal = LastFlag(Column(rows, "seal"))
                    /\ Result[i].apc = LastFlag(Column(rows, "apc"))

\* C15 witness: three rows of one journal from two handlers: the first sets the
\* seal, the second clears it, the third has no seal cell.
C15_Witness ==
    /\ Done("getAllJournals")
    /\ Len(journalQuery) = 2
    /\ \A h \in Range(journalQuery) : jstore[h].rows # <<>>
    /\ \E i \in 1..Len(Result) :
          /\ Result[i].ids # <<>>
          /\ LET rows == RowsWithKey(Result[i].ids[1])
             IN  /\ Len(rows) = 3
                 /\ HasValue(rows[1].seal) /\ ToBool(rows[1].seal)
                 /\ HasValue(rows[2].seal) /\ ~ToBool(rows[2].seal)
                 /\ ~HasValue(rows[3].seal)
                 /\ ~Result[i].seal
                 /\ Result[i].apc

\* The quartiles the registered databases hold for a category, in registration
\* order, among the rows a quartile filter lets through ("" for NULL).
StoredQuartiles(id, quartiles) ==
    LET holders == SelectSeq(categoryQuery,
                       LAMBDA h : \E c \in cstore[h].categories :
                                     /\ c.id = id
                                     /\ quartiles = {} \/ c.quartile \in quartiles)
    IN  [k \in 1..Len(holders) |->
            (CHOOSE c \in cstore[holders[k]].categories : c.id = id).quartile]

\* C16: a merged Category has the first non-empty quartile its rows supply, in
\* registration order: once set it is kept against later rows with an empty or a
\* different quartile, and an empty one is filled by the first later row that has
\* one; it is None when no row has one.
C16_QuartileFirstNonEmpty ==
    Done("getAllCategories") \/ Done("getCategoriesWithQuartile") =>
        \A i \in 1..Len(Result) :
            Result[i].quartile =
                FirstValue(StoredQuartiles(Result[i].ids[1], A.quartiles), NoneStr)

\* C16 witness: one category kept its quartile against a later row with a different
\* one, another took its quartile from the second handler's row.
C16_Witness ==
    /\ Done("getAllCategories")
    /\ Len(categoryQuery) = 2
    /\ \E i \in 1..Len(Result) :
          LET q == StoredQuartiles(Result[i].ids[1], {})
          IN  Len(q) = 2 /\ q[1] # "" /\ q[2] # "" /\ q[1] # q[2] /\ Result[i].quartile = q[1]
    /\ \E i \in 1..Len(Result) :
          LET q == StoredQuartiles(Result[i].ids[1], {})
          IN  Len(q) = 2 /\ q[1] = "" /\ q[2] # "" /\ Result[i].quartile = q[2]

-----------------------------------------------------------------------------
(* Empty filters, result order, identifiers, malformed records *)

\* C17 (as claimed): an empty filter set is no filter. getJournalsWithLicense({})
\* returns the journals of getAllJournals(); getCategoriesWithQuartile({}) and
\* getCategoriesAssignedToAreas({}) return the categories of getAllCategories();
\* getAreasAssignedToCategories({}) returns the areas of getAllAreas(); a composite
\* query with all its filter sets empty returns every journal that satisfies its
\* fixed condition: all journals for getJournalsInCategoriesWithQuartile({}, {}) and
\* getJournalsInAreasWithLicense({}, {}), all APC=false journals for the diamond
\* query.
C17_EmptyFilterIsNoFilter ==
    /\ Done("getJournalsWithLicense") /\ A.licenses = {}
          => Result = getAllJournals.val
    /\ Done("getCategoriesWithQuartile") /\ A.quartiles = {}
          => Result = getAllCategories.val
    /\ Done("getCategoriesAssignedToAreas") /\ A.area_ids = {}
          => Result = getAllCategories.val
    /\ Done("getAreasAssignedToCategories") /\ A.category_ids = {}
          => Result = getAllAreas.val
    /\ Done("getJournalsInAreasWithLicense") /\ A.area_ids = {} /\ A.licenses = {}
          => Range(Result) = Range(getAllJournals.val)
    /\ Done("getJournalsInCategoriesWithQuartile") /\ A.category_ids = {} /\ A.quartiles = {}
          => Range(Result) = Range(getAllJournals.val)
    /\ Done(Diamond) /\ A.area_ids = {} /\ A.category_ids = {} /\ A.quartiles = {}
          => Range(Result) = {j \in Range(getAllJournals.val) : ~j.apc}

JournalListOps == {"getAllJournals", "getJournalsWithLicense",
                   "getJournalsInCategoriesWithQuartile",
                   "getJournalsInAreasWithLicense", Diamond}
CategoryListOps == {"getAllCategories", "getCategoriesWithQuartile",
                    "getCategoriesAssignedToAreas"}
AreaListOps == {"getAllAreas", "getAreasAssignedToCategories"}

\* The handler method whose DataFrames the operation collects into its result map.
FrameMethod(op) ==
    CASE op = "getJournalsInCategoriesWithQuartile" -> "getJournalsByIssns"
      [] op = "getJournalsInAreasWithLicense"       -> "getJournalsWithLicense"
      [] op = Diamond                               -> "getAllJournals"
      [] OTHER                                      -> op

\* The calls of the last operation that produced such DataFrames, in call order.
FrameCalls == SelectSeq(last.res.log, LAMBDA c : c.m = FrameMethod(last.op))

\* The rows of one collected DataFrame with the map key and the identifiers of
\* the entity a first appearance of the row creates.
KeyedFrame(c) ==
    IF last.op \in JournalListOps
    THEN LET df == HJournalCall(c.h, c.m, c.arg).df
         IN  [i \in 1..Len(df) |-> [key |-> GetJournalKey(df[i], i - 1),
                                    ids |-> DataframeToJournal(df[i]).ids]]
    ELSE LET df == HCategoryCall(c.h, c.m, c.arg).df
         IN  [i \in 1..Len(df) |->
                LET e == IF last.op \in CategoryListOps
                         THEN DataframeToCategory(df[i]) ELSE DataframeToArea(df[i])
                IN  [key |-> EntityKey(e, i - 1), ids |-> e.ids]]

\* All collected rows: handlers in call order, rows in the order returned.
KeyedRows == Concat([n \in 1..Len(FrameCalls) |-> KeyedFrame(FrameCalls[n])])

\* The first row of every key, in the order the keys appear: the entries of the
\* merge map.
FirstRows ==
    LET first == SelectSeq([p \in 1..Len(KeyedRows) |-> p],
                           LAMBDA p : \A q \in 1..(p - 1) :
                                         KeyedRows[q].key # KeyedRows[p].key)
    IN  [n \in 1..Len(first) |-> KeyedRows[first[n]]]

\* The identifiers of the entities in the order their keys appear first.
FirstAppearance == [n \in 1..Len(FirstRows) |-> FirstRows[n].ids]

ResultIdList == [i \in 1..Len(Result) |-> Result[i].ids]

\* C18: the list a get-many operation returns is in insertion order of first
\* appearance: handlers in registration order, rows in the order returned, one
\* entry per key at the place of its first row; a composite query that filters
\* such a list keeps the order. No later row moves an entity and nothing is sorted.
C18_FirstAppearanceOrder ==
    pc = "returned" /\ last.op \in JournalListOps \cup CategoryListOps \cup AreaListOps =>
        /\ ResultIdList = SelectSeq(FirstAppearance, LAMBDA ids : ids \in ResultIds)
        /\ last.op \notin {"getJournalsInAreasWithLicense", Diamond} /\ ~SomeHandlerRaised
              => ResultIdList = FirstAppearance

\* C18 witness: getAllJournals over two handlers where a row of the second handler
\* is merged into an entity of the first, which is followed by other entities and
\* by an entity the second handler adds, and the list is not in identifier order.
C18_Witness ==
    /\ Done("getAllJournals")
    /\ Len(FrameCalls) = 2
    /\ \E p, q \in 1..Len(KeyedRows) :
          /\ p < q
          /\ KeyedRows[p].key = KeyedRows[q].key
          /\ KeyedRows[p].ids = Result[1].ids
          /\ q > Len(KeyedFrame(FrameCalls[1]))
    /\ Len(Result) > Len(KeyedFrame(FrameCalls[1]))
    /\ \E i, j \in 1..Len(Result) :
          /\ i < j
          /\ Result[i].ids # <<>> /\ Result[j].ids # <<>>
          /\ SortedBy(IdOrder, {Result[i].ids[1], Result[j].ids[1]})
                = <<Result[j].ids[1], Result[i].ids[1]>>

\* C19: no two entities of a get-many result share an identifier; the rows that
\* carry one identifier collapse into one entity, the one created at its first
\* appearance; an entity with an identifier is held in the merge map under exactly
\* that identifier.
C19_IdentifiersUnique ==
    pc = "returned" /\ last.op \in JournalListOps \cup CategoryListOps \cup AreaListOps =>
        /\ \A i, j \in 1..Len(Result) :
              i < j /\ Result[i].ids # <<>> => Result[i].ids # Result[j].ids
        /\ last.op \notin {"getJournalsInAreasWithLicense", Diamond} /\ ~SomeHandlerRaised
              => /\ Len(Result) = Len(FirstRows)
                 /\ \A i \in 1..Len(Result) :
                       Result[i].ids # <<>> => FirstRows[i].key = Result[i].ids[1]
                 /\ \A p \in 1..Len(KeyedRows) :
                       KeyedRows[p].ids # <<>> =>
                          Cardinality({i \in 1..Len(Result) :
                                          Result[i].ids = KeyedRows[p].ids}) = 1

\* C19 witness: getAllJournals over two handlers that both hold rows of one ISSN,
\* with a journal identified by its EISSN alone and one by an ISSN beside an EISSN.
C19_Witness ==
    /\ Done("getAllJournals")
    /\ \E p, q \in 1..Len(KeyedRows) :
          /\ p <= Len(KeyedFrame(FrameCalls[1])) /\ Len(KeyedFrame(FrameCalls[1])) < q
          /\ KeyedRows[p].ids # <<>>
          /\ KeyedRows[p].ids = KeyedRows[q].ids
    /\ \E r \in Range(RowsSeen) : ~HasValue(r.issn) /\ <<Strip(r.eissn)>> \in ResultIds
    /\ \E r \in Range(RowsSeen) :
          HasValue(r.issn) /\ HasValue(r.eissn) /\ <<Strip(r.issn)>> \in ResultIds
    /\ Len(Result) < Len(KeyedRows)

\* The rows the handler h answered to the last call.
AnsweredRows(h) == HJournalCall(h, last.op, A.licenses).df

\* C20 (as claimed): when converting or merging one row of a handler's result
\* fails, only that row is dropped: every other row of the same result, before and
\* after it, is processed and its journal is in the returned list, for rows that
\* appear first and for rows merged into an existing entity alike.
C20_OnlyMalformedRowDropped ==
    Done("getAllJournals") \/ Done("getJournalsWithLicense") =>
        \A h \in Range(journalQuery) :
            \A i \in 1..Len(AnsweredRows(h)) :
                LET row == AnsweredRows(h)[i]
                IN  ~FlagsRaise(row) /\ KeyId(row) # "" => <<KeyId(row)>> \in ResultIds

-----------------------------------------------------------------------------
(* Entities in the hands of a caller: implementations/models.py *)

\* The arguments a caller passes to the mutators.
IdArgs == {"", "1111", "e555"}
CategoryObjects == {[obj |-> "k1", ids |-> <<"C1">>, quartile |-> "Q1"],
                    [obj |-> "k2", ids |-> <<"C1">>, quartile |-> "Q1"]}
AreaObjects == {[obj |-> "a1", ids |-> <<"A1">>]}
LanguageArgs == SeqsUpTo({"en", "fr"}, MaxLanguages)
EntityRows == { Row(Uri1111, "1111", "", "X", "en", "", "", "", ""),
                Row("", "1111", "e111", "Y", " en", "", "True", "", "") }

IsJournal(e) == "languages" \in DOMAIN e

\* A mutator is called on the entity and leaves it as after.
Mutate(m, arg, after) ==
    /\ entity' = after
    /\ call' = [m |-> m, arg |-> arg, before |-> entity]
    /\ UNCHANGED <<journalQuery, categoryQuery, jstore, cstore, pc, last>>

\* Journal(), Category(), Area()
InitEntity ==
    /\ journalQuery = <<>>
    /\ categoryQuery = <<>>
    /\ jstore = JFixture
    /\ cstore = CFixture
    /\ pc = "idle"
    /\ last = NoCall
    /\ entity \in {NewJournal, NewCategory, NewArea}
    /\ call = NoMutation

AddId == \E entity_id \in IdArgs : Mutate("addId", entity_id, addId(entity, entity_id))

SetId == \E entity_id \in IdArgs : Mutate("setId", entity_id, setId(entity, entity_id))

AddCategory ==
    /\ IsJournal(entity)
    /\ \E category \in CategoryObjects \cup {NoneObj} :
          Mutate("addCategory", category, addCategory(entity, category))

AddArea ==
    /\ IsJournal(entity)
    /\ \E area \in AreaObjects \cup {NoneObj} :
          Mutate("addArea", area, addArea(entity, area))

SetLanguages ==
    /\ IsJournal(entity)
    /\ \E languages \in LanguageArgs :
          Mutate("setLanguages", languages, setLanguages(entity, languages))

\* The engine creates a Journal from a row: _dataframe_to_journal
CreateFromRow ==
    \E row \in EntityRows :
        Mutate("_dataframe_to_journal", row, DataframeToJournal(row))

\* The engine merges a row into the Journal: _update_journal_from_row
MergeRow ==
    /\ IsJournal(entity)
    /\ \E row \in EntityRows :
          Mutate("_update_journal_from_row", row, UpdateJournalFromRow(entity, row))

NextEntity ==
    \/ AddId
    \/ SetId
    \/ AddCategory
    \/ AddArea
    \/ SetLanguages
    \/ CreateFromRow
    \/ MergeRow

SpecEntity == InitEntity /\ [][NextEntity]_vars

NoDuplicate(s) == \A i, j \in 1..Len(s) : i # j => s[i] # s[j]

\* C21: the identifier list of an entity holds no empty string and no duplicate;
\* addId with an empty or already-present identifier leaves the list unchanged,
\* addId with a new identifier appends it at the end; after setId the list holds
\* exactly the given identifier, or nothing when it is empty.
C21_IdentifierList ==
    /\ "" \notin Range(entity.ids)
    /\ NoDuplicate(entity.ids)
    /\ call.m = "addId" =>
          entity.ids = IF call.arg = "" \/ call.arg \in Range(call.before.ids)
                       THEN call.before.ids
                       ELSE call.before.ids \o <<call.arg>>
    /\ call.m = "setId" =>
          entity.ids = IF call.arg = "" THEN <<>> ELSE <<call.arg>>

\* C21 witness: addId with an identifier the entity already holds beside another
\* one, on a Category.
C21_Witness ==
    /\ call.m = "addId"
    /\ call.arg \in Range(call.before.ids)
    /\ Len(entity.ids) = 2
    /\ "quartile" \in DOMAIN entity

\* C22 (as claimed): the language list of a Journal never holds the same language
\* twice, after any sequence of setLanguages calls and engine merges.
C22_LanguagesNoDuplicate ==
    IsJournal(entity) => NoDuplicate(entity.languages)

\* C23 (as claimed): a mutator called with an empty identifier (addId(""),
\* setId("")) or with None (addCategory(None), addArea(None)) leaves the entity as
\* it was before the call, and so does a repeated addId, addCategory or addArea
\* with an argument the entity already holds.
C23_InvalidInputIsNoOp ==
    /\ call.m \in {"addId", "setId"} /\ call.arg = "" => entity = call.before
    /\ call.m \in {"addCategory", "addArea"} /\ call.arg = NoneObj => entity = call.before
    /\ call.m = "addId" /\ call.arg \in Range(call.before.ids) => entity = call.before
    /\ call.m = "addCategory" /\ call.arg \in Range(call.before.categories)
          => entity = call.before
    /\ call.m = "addArea" /\ call.arg \in Range(call.before.areas) => entity = call.before

\* The rows of the last call that were merged into the entity of the n-th key.
MergedInto(n) ==
    {p \in 1..Len(KeyedRows) :
        /\ KeyedRows[p].key = FirstRows[n].key
        /\ \E q \in 1..(p - 1) : KeyedRows[q].key = KeyedRows[p].key}

\* C24: merging never changes the identifiers of a Journal: a returned Journal has
\* the identifier list it was created with at its first row, however many rows
\* were merged into it, and an identifier is the ISSN or EISSN of a row, never a
\* synthetic per-row key or a journal URI.
C24_MergeKeepsIdentifiers ==
    Done("getAllJournals") \/ Done("getJournalsWithLicense") =>
        /\ Len(Result) = Len(FirstRows)
        /\ \A n \in 1..Len(Result) :
              /\ Result[n].ids = FirstRows[n].ids
              /\ \A id \in Range(Result[n].ids) :
                    /\ id \notin Range(RowKeys)
                    /\ id \notin {Strip(r.journal) : r \in Range(RowsSeen)}
                    /\ \E r \in Range(RowsSeen) : id \in {Strip(r.issn), Strip(r.eissn)}
              /\ Result[n].ids = <<>> =>
                    FirstRows[n].key \notin {KeyId(r) : r \in Range(RowsSeen)}

\* C24 witness: a Journal with an ISSN into which a row with another EISSN was
\* merged, beside a Journal held under a journal URI and one under a per-row key.
C24_Witness ==
    /\ Done("getAllJournals")
    /\ \E n \in 1..Len(Result) :
          /\ Result[n].ids # <<>>
          /\ \E p \in MergedInto(n) : \E r \in Range(RowsSeen) :
                /\ KeyId(r) = Result[n].ids[1]
                /\ HasValue(r.eissn)
                /\ Strip(r.eissn) # Result[n].ids[1]
                /\ r # RowsSeen[1]
    /\ \E n \in 1..Len(Result) :
          Result[n].ids = <<>> /\ FirstRows[n].key \in Range(RowKeys)

\* The rows the handlers returned during the last call, in call order.
FrameRows ==
    Concat([n \in 1..Len(FrameCalls) |->
               HJournalCall(FrameCalls[n].h, FrameCalls[n].m, FrameCalls[n].arg).df])

\* The list of the last call is made of the rows returned during that call alone.
FromThisCallAlone ==
    pc = "returned" /\ last.op \in {"getAllJournals", "getJournalsWithLicense"} =>
        /\ ResultIds = {KeyedRows[p].ids : p \in 1..Len(KeyedRows)}
        /\ \A i \in 1..Len(Result) :
              Result[i].ids # <<>> =>
                 LET rows == SelectSeq(FrameRows, LAMBDA r : KeyId(r) = Result[i].ids[1])
                 IN  /\ Result[i].title = FirstValue(Column(rows, "title"), "")
                     /\ Result[i].publisher = FirstValue(Column(rows, "publisher"), NoneStr)
                     /\ Result[i].licence = FirstValue(Column(rows, "licence"), "")
                     /\ Result[i].languages =
                            FirstAppearances(ValuesOf(Column(rows, "language")))
                     /\ Result[i].seal = LastFlag(Column(rows, "seal"))

\* A query method changes neither handler collection nor a list handed out before.
QueryFrame ==
    pc' = "returned" /\ last'.op \notin RegistryOps =>
        /\ journalQuery' = journalQuery
        /\ categoryQuery' = categoryQuery
        /\ call' = call

\* C25: the engine keeps no fetched record across calls: a query method leaves both
\* handler collections and the lists it returned earlier unchanged, and its result
\* is built from what the registered handlers return during that call alone, so a
\* change in a store between two identical calls shows in the second.
C25_NoRecordKept == []FromThisCallAlone /\ [][QueryFrame]_vars

\* C25 witness: getAllJournals is called a second time after a store changed; the
\* list kept from the first call holds a journal the second list does not, and the
\* second list holds a journal with a title the first did not have.
C25_Witness ==
    /\ Done("getAllJournals")
    /\ call.m = "kept"
    /\ call.arg.op = "getAllJournals"
    /\ \E j \in Range(call.before) : j.ids \notin ResultIds
    /\ \E j \in Range(Result) :
          /\ j.ids \in {k.ids : k \in Range(call.before)}
          /\ j.title \notin {k.title : k \in Range(call.before)}

\* The identifier sets the last operation passed to getJournalsByIssns of handler
\* h, in call order.
ChunksPassed(h) ==
    LET calls == SelectSeq(last.res.log,
                           LAMBDA c : c.m = "getJournalsByIssns" /\ c.h = h)
    IN  [n \in 1..Len(calls) |-> calls[n].arg]

\* C26: the batched fetch passes at most ChunkSize identifiers to a handler in one
\* getJournalsByIssns call; the chunks passed to one handler are non-empty and
\* pairwise disjoint, all but the last have exactly ChunkSize identifiers, and
\* together they are the non-empty identifiers of the input; the results of all
\* chunks of all handlers go through one merge map, so no identifier is returned
\* twice.
C26_ChunksPartitionInput ==
    Done("getJournalsInCategoriesWithQuartile") =>
        /\ \A h \in Range(journalQuery) :
              LET chunks == ChunksPassed(h)
              IN  /\ \A n \in 1..Len(chunks) :
                        /\ chunks[n] # {}
                        /\ Cardinality(chunks[n]) <= ChunkSize
                        /\ n < Len(chunks) => Cardinality(chunks[n]) = ChunkSize
                  /\ \A n, k \in 1..Len(chunks) : n # k => chunks[n] \cap chunks[k] = {}
                  /\ UNION Range(chunks) = FetchedIds \ {""}
        /\ Cardinality(ResultIds) = Len(Result)

\* C26 witness: more than two chunks' worth of identifiers fetched from two
\* handlers, the last chunk smaller than the others.
C26_Witness ==
    /\ Done("getJournalsInCategoriesWithQuartile")
    /\ Len(journalQuery) = 2
    /\ \A h \in Range(journalQuery) :
          /\ Len(ChunksPassed(h)) = 3
          /\ Cardinality(ChunksPassed(h)[3]) < ChunkSize
    /\ Len(Result) > 2 * ChunkSize

\* The getJournalsByIssns calls of the last operation, in call order.
FetchCalls == SelectSeq(last.res.log, LAMBDA c : c.m = "getJournalsByIssns")

\* C27: over N non-empty identifiers and H registered journal handlers the batched
\* fetch makes exactly H * ceil(N / ChunkSize) getJournalsByIssns calls: all chunks
\* of a handler, in ascending identifier order, before any chunk of the handler
\* registered after it; when no non-empty identifier is asked for it calls no
\* handler and returns the empty list.
C27_FetchCallSequence ==
    Done("getJournalsInCategoriesWithQuartile") =>
        LET sorted == SortedBy(IdOrder, FetchedIds \ {""})
            N == Len(sorted)
            H == Len(journalQuery)
            per == (N + ChunkSize - 1) \div ChunkSize
            Upper(b) == IF b * ChunkSize < N THEN b * ChunkSize ELSE N
        IN  /\ Len(FetchCalls) = H * per
            /\ \A n \in 1..Len(FetchCalls) :
                  LET b == ((n - 1) % per) + 1
                  IN  /\ FetchCalls[n].h = journalQuery[((n - 1) \div per) + 1]
                      /\ FetchCalls[n].arg =
                            Range(SubSeq(sorted, (b - 1) * ChunkSize + 1, Upper(b)))
            /\ N = 0 => FetchCalls = <<>> /\ Result = <<>>

\* C27 witness: three chunks for each of two handlers.
C27_Witness ==
    /\ Done("getJournalsInCategoriesWithQuartile")
    /\ Len(journalQuery) = 2
    /\ Len(FetchCalls) = 6
    /\ FetchCalls[3].h # FetchCalls[4].h

\* The other case of C27: an input of one empty identifier alone, for which no
\* handler is called.
C27_WitnessEmpty ==
    /\ Done("getJournalsInCategoriesWithQuartile")
    /\ Len(journalQuery) = 2
    /\ FetchedIds = {""}
    /\ FetchCalls = <<>>

\* The entities without identifier in a list.
WithoutId(list) == SelectSeq(list, LAMBDA e : e.ids = <<>>)

\* C28: every journal the diamond query returns has an identifier, so a journal
\* with neither ISSN nor EISSN is left out whatever the filters, also when all
\* three sets are empty, and no two returned journals have the same identifier;
\* getJournalsInAreasWithLicense with empty areaIds returns the journals without
\* identifier its handlers' rows give.
C28_DiamondNeedsIdentifier ==
    /\ Done(Diamond) =>
          /\ WithoutId(Result) = <<>>
          /\ Cardinality(ResultIds) = Len(Result)
    /\ Done("getJournalsInAreasWithLicense") /\ A.area_ids = {} =>
          Len(WithoutId(Result)) = Len(WithoutId(FirstRows))

\* C28 witness: the diamond query with three empty sets and no classification
\* handler, over a store with an APC=false journal that has no identifier; the
\* other APC=false journals are returned.
C28_Witness ==
    /\ Done(Diamond)
    /\ A.area_ids = {} /\ A.category_ids = {} /\ A.quartiles = {}
    /\ categoryQuery = <<>>
    /\ \E r \in Range(RowsSeen) : KeyId(r) = "" /\ ~ToBool(r.apc)
    /\ Len(Result) >= 2

\* What a registration leaves of a collection: the handler appended at the end when
\* it is new, the collection as it was when the handler is None or already in it.
AfterAdd(collection, handler) ==
    IF handler = NoneHandler \/ handler \in Range(collection)
    THEN collection ELSE collection \o <<handler>>

\* One registry call: what it answers and what it does to the two collections.
RegistryStep ==
    pc' = "returned" /\ last'.op \in RegistryOps =>
        /\ last'.res.val = TRUE
        /\ ~last'.res.exc
        /\ last'.op = "addJournalHandler" =>
              /\ journalQuery' = AfterAdd(journalQuery, last'.args.handler)
              /\ categoryQuery' = categoryQuery
        /\ last'.op = "addCategoryHandler" =>
              /\ categoryQuery' = AfterAdd(categoryQuery, last'.args.handler)
              /\ journalQuery' = journalQuery
        /\ last'.op = "cleanJournalHandlers" =>
              journalQuery' = <<>> /\ categoryQuery' = categoryQuery
        /\ last'.op = "cleanCategoryHandlers" =>
              categoryQuery' = <<>> /\ journalQuery' = journalQuery

\* C29: a registry operation touches only its own collection and keeps order: adding
\* or cleaning journal handlers leaves the classification handlers as they were and
\* the reverse; a new handler is appended at the end; registering a handler already
\* registered, or None, changes neither collection nor the place of any handler; and
\* each of the four operations returns True.
C29_RegistryKeepsOrder == [][RegistryStep]_vars

\* C29 witness: the handler registered first was registered again while a second
\* one stood after it and the other collection was full; it is still the first.
C29_Witness ==
    /\ Done("addJournalHandler")
    /\ Len(journalQuery) = MaxHandlers
    /\ Len(categoryQuery) = MaxHandlers
    /\ last.args.handler = journalQuery[1]
    /\ last.res.val = TRUE

\* The Journals of getAllJournals, computed in the present state, that carry the
\* identifiers of the entity the lookup returned.
MergedTwins ==
    {m \in Range(getAllJournals.val) : m.ids # <<>> /\ m.ids = Result.entity.ids}

\* C30: getEntityById performs no merge: when a journal handler holds the
\* identifier, the Journal returned is the conversion of the first row of the first
\* such handler and of nothing else, so it has at most one language and no field of
\* a later row or a later handler, and no handler registered after the hit is
\* called.
C30_LookupDoesNotMerge ==
    Done("getEntityById") =>
        LET id == A.entity_id
            jhits == {i \in 1..Len(journalQuery) : JournalHits(journalQuery[i], id) # <<>>}
        IN  jhits # {} =>
               LET i == CHOOSE i \in jhits : \A k \in jhits : i <= k
               IN  /\ Result.kind = "Journal"
                   /\ Len(Result.entity.languages) <= 1
                   /\ Result.entity = DataframeToJournal(JournalHits(journalQuery[i], id)[1])
                   /\ Len(last.res.log) = i
                   /\ \A k \in 1..i : /\ last.res.log[k].h = journalQuery[k]
                                      /\ last.res.log[k].m = "getById"

\* C30 witness: the identifier is held with several rows by the first handler and
\* by the second handler too; the lookup stopped at the first handler, and the
\* Journal it returned differs from the merged Journal getAllJournals returns for
\* the same identifier, which has two languages.
C30_Witness ==
    /\ Done("getEntityById")
    /\ Len(journalQuery) = 2
    /\ Len(JournalHits(journalQuery[1], A.entity_id)) >= 2
    /\ JournalHits(journalQuery[2], A.entity_id) # <<>>
    /\ Len(last.res.log) = 1
    /\ Result.kind = "Journal"
    /\ \E m \in MergedTwins : m # Result.entity /\ Len(m.languages) >= 2

====
